---- MODULE Spec2Model ----
(***************************************************************************)
(* HPF diagram toolkit: NodeShape (node-shapes.js), LinkEdge / LinkManager *)
(* (link-edges.js) and DiagramEditor (diagram-editor, the first module of  *)
(* src/unnamed/part_002) as a state machine, and beside it the             *)
(* PresentationManager (presentation-manager.js).                          *)
(*                                                                         *)
(* JavaScript objects are heap cells: a NodeShape is an index into         *)
(* `shapes`, a LinkEdge an index into `edges`; an index is never reused,   *)
(* so object identity (===) is index equality.  Numbers are integers: the  *)
(* inputs are chosen so that every product and quotient the code forms is  *)
(* exact.  A port offset (a fraction 0..1 in the code) is held in percent. *)
(***************************************************************************)
EXTENDS Integers, Sequences, FiniteSets, TLC

VARIABLES
  shapes,     \* heap of NodeShape objects (id, x, y, width, height, ports, ...)
  edges,      \* heap of LinkEdge objects (source, target, type, bend, path)
  nodes,      \* DiagramEditor.nodes: Map id -> NodeShape, in insertion order
  links,      \* DiagramEditor.links: Set of LinkEdge, in insertion order
  lmEdges,    \* LinkManager.edges: array of LinkEdge
  undoStack,  \* DiagramEditor.undoStack
  redoStack,  \* DiagramEditor.redoStack
  uid,        \* number of uuid() calls made so far (the next fresh token)
  win,        \* pointermove / pointerup listeners installed on window by gestures in flight
  selectedNodes,       \* DiagramEditor.selectedNodes: Set of NodeShape, in insertion order
  selectedLinks,       \* DiagramEditor.selectedLinks: Set of LinkEdge, in insertion order
  selected,            \* DiagramEditor.selected: a NodeShape or null (0)
  store,               \* the state of DiagramEditor.store: {nodes, links}
  viewBox,             \* DiagramEditor.viewBox, in thousandths
  isPanning,           \* DiagramEditor.isPanning
  dragStartPositions,  \* DiagramEditor.dragStartPositions: Map id -> {x, y}
  lasso,               \* DiagramEditor.lasso: the lasso rect and its attributes, or null
  events,     \* the signals the bus emitted during the last call, with what a listener saw
  lastCall,   \* history: the operation that produced this state, and its argument
  hist,       \* history: the current run of structural calls, undos and redos
  slideEls,   \* heap of slide elements: their is-hidden, is-in, is-out classes, in the stage or not
  slides,     \* PresentationManager.slides: array of {el, id}
  pmStore,    \* the state of PresentationManager.store: {slides, activeIndex}
  timers,     \* setTimeout callbacks of _applyTransition not yet run, oldest first
  frames,     \* the slides with a requestAnimationFrame callback of _applyTransition not yet run
  pmEvents,   \* the signals the presentation's bus emitted during the last call
  pmCall      \* history: the last operation on the presentation, and its argument

pmVars == <<slideEls, slides, pmStore, timers, frames, pmEvents, pmCall>>

editorVars == <<shapes, edges, nodes, links, lmEdges, undoStack, redoStack, uid, win,
                selectedNodes, selectedLinks, selected, store, viewBox, isPanning,
                dragStartPositions, lasso, events, lastCall, hist>>

vars == <<editorVars, pmVars>>

(***************************************************************************)
(* Bounds of the model.                                                    *)
(***************************************************************************)
MaxShapes == 2     \* NodeShape objects constructed in one behaviour
MaxEdges == 2      \* LinkEdge objects constructed in one behaviour
MaxGestures == 1   \* link-drag gestures in flight at once
MaxRun == 2        \* structural calls remembered by the history variable
MaxPorts == 2      \* ports of a shape that addPort still adds to
MaxGeomLinks == 1  \* links made in SpecGeom
MaxCoord == 500    \* a node at x or y beyond this is not dragged further
MaxPan == 50       \* a viewBox with its origin beyond this is not panned further
MaxSlides == 2     \* slide elements made in one behaviour
MaxTimers == 2     \* transition timeouts pending at once

(***************************************************************************)
(* Program constants.                                                      *)
(***************************************************************************)
HitThreshold == 12
ScaleIn == 9       \* wheel scale 0.9, in tenths
ScaleOut == 11     \* wheel scale 1.1, in tenths
ScaleDen == 10
MaxSize == 2000
HandleSize == 10
DefaultX == 40
DefaultY == 40
DefaultWidth == 160
DefaultHeight == 80
DefaultMinWidth == 80
DefaultMinHeight == 50

Max(a, b) == IF a >= b THEN a ELSE b
Min(a, b) == IF a <= b THEN a ELSE b
Abs(a) == IF a >= 0 THEN a ELSE 0 - a
Range(s) == {s[i] : i \in 1..Len(s)}

(***************************************************************************)
(* core-utils                                                              *)
(***************************************************************************)
\* null / undefined where an id is expected
NoId == [prefix |-> "null", n |-> 0]
\* uuid(prefix): prefix + 8 base-36 digits of Math.random(); the k-th call
\* yields the k-th fresh token
uuid(prefix, k) == [prefix |-> prefix, n |-> k]
\* an id chosen by the caller (options.id, a node entry of load data)
CallerId(j) == [prefix |-> "caller", n |-> j]

clamp(value, min, max) == Max(min, Min(max, value))

\* Math.round(v / s) * s, Math.round rounding halves up
RoundTo(v, s) == ((2 * v + s) \div (2 * s)) * s

(***************************************************************************)
(* Map (insertion ordered; set on a present key keeps its place) and the   *)
(* array / Set helpers.                                                    *)
(***************************************************************************)
MapHas(m, k) == \E i \in 1..Len(m) : m[i].id = k
MapGet(m, k) ==
  IF MapHas(m, k) THEN m[CHOOSE i \in 1..Len(m) : m[i].id = k].h ELSE 0
MapSet(m, k, h) ==
  IF MapHas(m, k)
  THEN [i \in 1..Len(m) |-> IF m[i].id = k THEN [id |-> k, h |-> h] ELSE m[i]]
  ELSE Append(m, [id |-> k, h |-> h])
MapDelete(m, k) == SelectSeq(m, LAMBDA e : e.id # k)
MapKeys(m) == {m[i].id : i \in 1..Len(m)}
MapValues(m) == {m[i].h : i \in 1..Len(m)}
Without(s, x) == SelectSeq(s, LAMBDA e : e # x)

(***************************************************************************)
(* NodeShape                                                               *)
(***************************************************************************)
\* options.k ?? d
Opt(o, k, d) == IF k \in o.has THEN o[k] ELSE d

PositionPort(sh, port) ==
  LET cx == CASE port.side = "left" -> sh.x
              [] port.side = "right" -> sh.x + sh.width
              [] port.side = "top" -> sh.x + (sh.width * port.offset) \div 100
              [] port.side = "bottom" -> sh.x + (sh.width * port.offset) \div 100
              [] OTHER -> sh.x
      cy == CASE port.side = "left" -> sh.y + (sh.height * port.offset) \div 100
              [] port.side = "right" -> sh.y + (sh.height * port.offset) \div 100
              [] port.side = "top" -> sh.y
              [] port.side = "bottom" -> sh.y + sh.height
              [] OTHER -> sh.y
  IN [port EXCEPT !.cx = cx, !.cy = cy]

\* _updateLayout: the resize handle's x / y attributes and the ports
UpdateLayoutStale(sh) == sh
UpdateLayout(sh) ==
  [sh EXCEPT !.handle = [x |-> sh.x + sh.width - HandleSize,
                         y |-> sh.y + sh.height - HandleSize],
             !.ports = [i \in 1..Len(sh.ports) |-> PositionPort(sh, sh.ports[i])]]

ShapeSetPositionNoSnap(sh, x, y) ==
  UpdateLayout([sh EXCEPT !.x = x, !.y = y])
ShapeSetPosition(sh, x, y) ==
  LET nextX == IF sh.snap # 0 THEN RoundTo(x, sh.snap) ELSE x
      nextY == IF sh.snap # 0 THEN RoundTo(y, sh.snap) ELSE y
  IN UpdateLayout([sh EXCEPT !.x = nextX, !.y = nextY])

ShapeSetSizeCentred(sh, width, height) ==
  UpdateLayout([sh EXCEPT !.x = @ + (sh.width - clamp(width, sh.minWidth, MaxSize)) \div 2,
                          !.y = @ + (sh.height - clamp(height, sh.minHeight, MaxSize)) \div 2,
                          !.width = clamp(width, sh.minWidth, MaxSize),
                          !.height = clamp(height, sh.minHeight, MaxSize)])
ShapeSetSize(sh, width, height) ==
  UpdateLayout([sh EXCEPT !.width = clamp(width, sh.minWidth, MaxSize),
                          !.height = clamp(height, sh.minHeight, MaxSize)])

ShapeAddPort(sh, side, offset, id, drag) ==
  [sh EXCEPT !.ports =
     Append(@, PositionPort(sh, [id |-> id, side |-> side, offset |-> offset,
                                 cx |-> 0, cy |-> 0, drag |-> drag]))]

NewNodeShape(o, id) ==
  [id |-> id,
   x |-> Opt(o, "x", DefaultX), y |-> Opt(o, "y", DefaultY),
   width |-> Opt(o, "width", DefaultWidth), height |-> Opt(o, "height", DefaultHeight),
   minWidth |-> Opt(o, "minWidth", DefaultMinWidth),
   minHeight |-> Opt(o, "minHeight", DefaultMinHeight),
   labelText |-> Opt(o, "label", "Node"),
   snap |-> Opt(o, "snap", 0),
   handle |-> [x |-> Opt(o, "x", DefaultX) + Opt(o, "width", DefaultWidth) - HandleSize,
               y |-> Opt(o, "y", DefaultY) + Opt(o, "height", DefaultHeight) - HandleSize],
   ports |-> <<>>,
   inDom |-> TRUE]

\* createNodeShape: options.ports.forEach(port => node.addPort(port.side, port.offset));
\* each addPort draws a fresh uuid('port').  drag: the editor attaches a port
\* drag to every port the shape has when addNode returns from createNodeShape.
RECURSIVE AddPorts(_, _, _)
AddPorts(sh, ports, k) ==
  IF ports = <<>> THEN sh
  ELSE AddPorts(ShapeAddPort(sh, Head(ports).side, Head(ports).offset,
                             uuid("port", k), TRUE),
                Tail(ports), k + 1)

createNodeShape(o, id, k) == AddPorts(NewNodeShape(o, id), Opt(o, "ports", <<>>), k)

(***************************************************************************)
(* LinkEdge, LinkManager.  An endpoint is a port of a shape ({node, port}, *)
(* the port being the port-th entry of the shape's ports), a free point    *)
(* ({x, y}) or null.  `s` is the whole program state as a record.          *)
(***************************************************************************)
\* viewBox numbers are held in thousandths
Milli == 1000
\* the lasso field when there is no lasso rect; the rect's attributes once set
NoLasso == [on |-> FALSE, x |-> 0, y |-> 0, width |-> 0, height |-> 0]

NoEnd == [kind |-> "null", node |-> 0, port |-> 0, x |-> 0, y |-> 0]
PortRef(h, p) == [kind |-> "port", node |-> h, port |-> p, x |-> 0, y |-> 0]
FreePoint(x, y) == [kind |-> "point", node |-> 0, port |-> 0, x |-> x, y |-> y]

NoBend == [set |-> FALSE, x |-> 0, y |-> 0]
\* the path element's d attribute before the first update()
NoPath == [cmd |-> "none", pts |-> <<>>]

\* portPoint(port): the port element's cx / cy attributes
portPoint(s, ep) ==
  [x |-> s.shapes[ep.node].ports[ep.port].cx,
   y |-> s.shapes[ep.node].ports[ep.port].cy]

ResolvePoint(s, ep) ==
  IF ep.kind = "port" THEN portPoint(s, ep) ELSE [x |-> ep.x, y |-> ep.y]

\* the bend LinkEdge._buildPath leaves behind
BendAfterRecompute(edge, start, end) ==
  IF edge.type = "orthogonal"
  THEN [set |-> TRUE, x |-> (start.x + end.x) \div 2, y |-> (start.y + end.y) \div 2]
  ELSE edge.bend
BendAfter(edge, start, end) ==
  IF edge.type = "orthogonal" /\ ~edge.bend.set
  THEN [set |-> TRUE, x |-> (start.x + end.x) \div 2, y |-> (start.y + end.y) \div 2]
  ELSE edge.bend

\* the d string LinkEdge._buildPath returns, as its command letters and numbers
BuildPath(edge, start, end) ==
  LET bend == BendAfter(edge, start, end)
      curve == Max(Abs(end.x - start.x), Abs(end.y - start.y)) \div 4
  IN CASE edge.type = "straight" ->
            [cmd |-> "ML", pts |-> <<start.x, start.y, end.x, end.y>>]
       [] edge.type = "orthogonal" ->
            [cmd |-> "MLLL", pts |-> <<start.x, start.y, bend.x, start.y,
                                       bend.x, end.y, end.x, end.y>>]
       [] OTHER ->
            [cmd |-> "MC", pts |-> <<start.x, start.y, start.x + curve, start.y,
                                     end.x - curve, end.y, end.x, end.y>>]

\* LinkEdge.update() on the edge object e
EdgeUpdate(s, e) ==
  LET edge == s.edges[e] IN
  IF edge.source.kind = "null" \/ edge.target.kind = "null" THEN edge
  ELSE LET start == ResolvePoint(s, edge.source)
           end == ResolvePoint(s, edge.target)
       IN [edge EXCEPT !.path = BuildPath(edge, start, end),
                       !.bend = BendAfter(edge, start, end)]

\* LinkManager.updateAll()
UpdateAll(s) ==
  [s EXCEPT !.edges = [e \in 1..Len(s.edges) |->
                         IF e \in Range(s.lmEdges) THEN EdgeUpdate(s, e)
                         ELSE s.edges[e]]]

\* LinkManager.createEdge: new LinkEdge (whose constructor ends in update()),
\* pushed on LinkManager.edges; deleteOnClick is options.deleteOnClick ?? true
\* and the callers pass no deleteOnClick
createEdge(s, source, target, type) ==
  LET e == Len(s.edges) + 1
      fresh == [id |-> uuid("edge", s.uid), source |-> source, target |-> target,
                type |-> type, bend |-> NoBend, path |-> NoPath,
                deleteOnClick |-> TRUE, inDom |-> TRUE]
      s1 == [s EXCEPT !.edges = Append(@, fresh), !.uid = @ + 1]
  IN [s1 EXCEPT !.edges[e] = EdgeUpdate(s1, e), !.lmEdges = Append(@, e)]

\* LinkManager.removeEdge
removeEdgeDetach(s, e) ==
  [s EXCEPT !.edges[e].inDom = FALSE]
removeEdge(s, e) ==
  [s EXCEPT !.lmEdges = Without(@, e), !.edges[e].inDom = FALSE]

\* LinkEdge.setEndpoints
setEndpoints(s, e, source, target) ==
  LET s1 == [s EXCEPT !.edges[e].source = source, !.edges[e].target = target]
  IN [s1 EXCEPT !.edges[e] = EdgeUpdate(s1, e)]

(***************************************************************************)
(* DiagramEditor                                                           *)
(***************************************************************************)
ActionRecord(type, id, e) == [type |-> type, node |-> id, edge |-> e]

\* bus.emit(name, payload): what a listener called now is handed (the signal,
\* the type of a diagram:changed payload, the node or edge it is about) and
\* what it reads from the editor (node map values, link set, store state)
NoPayload == [id |-> NoId]
EmitWith(s, name, type, subject, payload) ==
  [s EXCEPT !.events =
     Append(@, [name |-> name, type |-> type, subject |-> subject,
                payload |-> payload,
                seen |-> [nodes |-> [i \in 1..Len(s.nodes) |-> s.nodes[i].h],
                          links |-> s.links, store |-> s.store]])]
Emit(s, name, type, subject) == EmitWith(s, name, type, subject, NoPayload)

\* NodeShape.getBounds()
getBounds(sh) ==
  [id |-> sh.id, x |-> sh.x, y |-> sh.y, width |-> sh.width, height |-> sh.height]

\* node.emit(name, this.getBounds()) of the shape h, as its listeners are handed it
NodeEmit(s, h, name) == EmitWith(s, name, "node", h, getBounds(s.shapes[h]))

\* _syncStore
SyncStoreSkip(s) == s
SyncStore(s) ==
  [s EXCEPT !.store = [nodes |-> [i \in 1..Len(s.nodes) |-> s.nodes[i].h],
                       links |-> s.links]]

\* the two signals that end a structural call: name, then diagram:changed
Announce(s, name, subject) ==
  Emit(Emit(s, name, "", subject), "diagram:changed", name, subject)

\* _record
Record(s, action) ==
  [s EXCEPT !.undoStack = Append(@, action), !.redoStack = <<>>]

\* addNode(options): { id: uuid('node'), ...options } goes to createNodeShape
addNode(s, o) ==
  LET id == Opt(o, "id", uuid("node", s.uid))
      node == createNodeShape(o, id, s.uid + 1)
      h == Len(s.shapes) + 1
      s1 == [s EXCEPT !.shapes = Append(@, node),
                      !.uid = @ + 1 + Len(node.ports),
                      !.nodes = MapSet(@, id, h)]
  IN Announce(SyncStore(Record(s1, ActionRecord("add-node", id, 0))), "node:add", h)

\* removeLink(edge)
removeLinkUnguarded(s, e) ==
  Announce(SyncStore([removeEdge(s, e) EXCEPT !.links = Without(@, e)]),
           "link:remove", e)
removeLink(s, e) ==
  IF e \notin Range(s.links) THEN s
  ELSE Announce(SyncStore([removeEdge(s, e) EXCEPT !.links = Without(@, e)]),
                "link:remove", e)

\* link.source?.node === node || link.target?.node === node
AttachedSourceOnly(edge, h) == edge.source.kind = "port" /\ edge.source.node = h
Attached(edge, h) ==
  \/ edge.source.kind = "port" /\ edge.source.node = h
  \/ edge.target.kind = "port" /\ edge.target.node = h

\* [...this.links].forEach(link => { if (attached) this.removeLink(link) })
RECURSIVE Cascade(_, _, _)
Cascade(s, snapshot, h) ==
  IF snapshot = <<>> THEN s
  ELSE Cascade(IF Attached(s.edges[Head(snapshot)], h)
               THEN removeLink(s, Head(snapshot)) ELSE s,
               Tail(snapshot), h)

\* removeNode(nodeId)
removeNodeEarly(s, id) ==
  LET h == MapGet(s.nodes, id) IN
  IF h = 0 THEN s
  ELSE SyncStore([Cascade(Announce(s, "node:remove", h), s.links, h) EXCEPT
                    !.shapes[h].inDom = FALSE,
                    !.nodes = MapDelete(@, id)])
removeNode(s, id) ==
  LET h == MapGet(s.nodes, id) IN
  IF h = 0 THEN s
  ELSE Announce(SyncStore([Cascade(s, s.links, h) EXCEPT
                             !.shapes[h].inDom = FALSE,
                             !.nodes = MapDelete(@, id)]),
                "node:remove", h)

\* addLink(source, target, options); options carry the path type only
addLinkUnsynced(s, source, target, type) ==
  LET e == Len(s.edges) + 1
      s1 == createEdge(s, source, target, type)
  IN Announce(Record([s1 EXCEPT !.links = Append(@, e)],
                     ActionRecord("add-link", NoId, e)),
              "link:add", e)
addLink(s, source, target, type) ==
  LET e == Len(s.edges) + 1
      s1 == createEdge(s, source, target, type)
  IN Announce(SyncStore(Record([s1 EXCEPT !.links = Append(@, e)],
                               ActionRecord("add-link", NoId, e))),
              "link:add", e)

\* action.undo() of a record: () => this.removeNode(node.id) / this.removeLink(edge)
RunUndo(s, action) ==
  IF action.type = "add-node" THEN removeNode(s, action.node)
  ELSE removeLink(s, action.edge)

\* action.do() of a record: () => {}
RunDo(s, action) == s

\* undo()
undoForgets(s) ==
  IF s.undoStack = <<>> THEN s
  ELSE LET action == s.undoStack[Len(s.undoStack)]
           s1 == [s EXCEPT !.undoStack = SubSeq(@, 1, Len(@) - 1)]
       IN EmitWith(RunUndo(s1, action), "history:undo", action.type, 0, action)
undo(s) ==
  IF s.undoStack = <<>> THEN s
  ELSE LET action == s.undoStack[Len(s.undoStack)]
           s1 == [s EXCEPT !.undoStack = SubSeq(@, 1, Len(@) - 1)]
       IN EmitWith([RunUndo(s1, action) EXCEPT !.redoStack = Append(@, action)],
                   "history:undo", action.type, 0, action)

\* redo()
redoAlwaysEmits(s) ==
  IF s.redoStack = <<>> THEN Emit(s, "history:redo", "", 0)
  ELSE LET action == s.redoStack[Len(s.redoStack)]
           s1 == [s EXCEPT !.redoStack = SubSeq(@, 1, Len(@) - 1)]
       IN EmitWith([RunDo(s1, action) EXCEPT !.undoStack = Append(@, action)],
                   "history:redo", action.type, 0, action)
redo(s) ==
  IF s.redoStack = <<>> THEN s
  ELSE LET action == s.redoStack[Len(s.redoStack)]
           s1 == [s EXCEPT !.redoStack = SubSeq(@, 1, Len(@) - 1)]
       IN EmitWith([RunDo(s1, action) EXCEPT !.undoStack = Append(@, action)],
                   "history:redo", action.type, 0, action)

\* Set.add: a member keeps its place
SetAdd(q, x) == IF x \in Range(q) THEN q ELSE Append(q, x)

\* selectNode(node, { append }); node = 0 stands for null / undefined
selectNode(s, node, append) ==
  LET s1 == IF ~append THEN [s EXCEPT !.selectedNodes = <<>>] ELSE s
      s2 == IF node # 0 THEN [s1 EXCEPT !.selectedNodes = SetAdd(@, node)] ELSE s1
  IN Emit([s2 EXCEPT !.selected = node], "node:select", "", node)

\* selectLink(edge, { append }); edge = 0 stands for null / undefined
selectLinkSilent(s, edge, append) ==
  LET s1 == IF ~append THEN [s EXCEPT !.selectedLinks = <<>>] ELSE s
  IN IF edge = 0 THEN s1
     ELSE Emit([s1 EXCEPT !.selectedLinks = SetAdd(@, edge)], "link:select", "", edge)
selectLink(s, edge, append) ==
  LET s1 == IF ~append THEN [s EXCEPT !.selectedLinks = <<>>] ELSE s
      s2 == IF edge # 0 THEN [s1 EXCEPT !.selectedLinks = SetAdd(@, edge)] ELSE s1
  IN Emit(s2, "link:select", "", edge)

\* edge.source?.node?.id || null
EndNodeId(s, ep) == IF ep.kind = "port" THEN s.shapes[ep.node].id ELSE NoId

\* exportJSON()
exportJSONAttached(s) ==
  [nodes |-> [i \in 1..Len(s.nodes) |->
                LET node == s.shapes[s.nodes[i].h] IN
                [id |-> node.id, x |-> node.x, y |-> node.y,
                 width |-> node.width, height |-> node.height,
                 label |-> node.labelText,
                 ports |-> [j \in 1..Len(node.ports) |->
                              [id |-> node.ports[j].id, side |-> node.ports[j].side,
                               offset |-> node.ports[j].offset]]]],
   links |-> LET kept == SelectSeq(s.links,
                                   LAMBDA e : /\ s.edges[e].source.kind = "port"
                                              /\ s.edges[e].target.kind = "port")
             IN [i \in 1..Len(kept) |->
                   [source |-> EndNodeId(s, s.edges[kept[i]].source),
                    target |-> EndNodeId(s, s.edges[kept[i]].target)]]]
exportJSON(s) ==
  [nodes |-> [i \in 1..Len(s.nodes) |->
                LET node == s.shapes[s.nodes[i].h] IN
                [id |-> node.id, x |-> node.x, y |-> node.y,
                 width |-> node.width, height |-> node.height,
                 label |-> node.labelText,
                 ports |-> [j \in 1..Len(node.ports) |->
                              [id |-> node.ports[j].id, side |-> node.ports[j].side,
                               offset |-> node.ports[j].offset]]]],
   links |-> [i \in 1..Len(s.links) |->
                [source |-> EndNodeId(s, s.edges[s.links[i]].source),
                 target |-> EndNodeId(s, s.edges[s.links[i]].target)]]]

\* a node entry of load data read as addNode options: the keys it carries
EntryOptions(n) ==
  [has |-> {"id", "x", "y", "width", "height", "label", "ports"},
   id |-> n.id, x |-> n.x, y |-> n.y, width |-> n.width, height |-> n.height,
   label |-> n.label, ports |-> n.ports]

\* data.nodes?.forEach(node => this.addNode(node))
RECURSIVE LoadNodes(_, _)
LoadNodes(s, entries) ==
  IF entries = <<>> THEN s
  ELSE LoadNodes(addNode(s, EntryOptions(Head(entries))), Tail(entries))

\* the body of data.links?.forEach in load
LoadLink(s, link) ==
  LET sourceNode == MapGet(s.nodes, link.source)
      targetNode == MapGet(s.nodes, link.target)
  IN IF sourceNode # 0 /\ targetNode # 0
        /\ s.shapes[sourceNode].ports # <<>> /\ s.shapes[targetNode].ports # <<>>
     THEN addLink(s, PortRef(sourceNode, 1), PortRef(targetNode, 1), "curved")
     ELSE s

Resolvable(s, link) == MapHas(s.nodes, link.source) /\ MapHas(s.nodes, link.target)

RECURSIVE LoadLinksAbort(_, _)
LoadLinksAbort(s, entries) ==
  IF entries = <<>> \/ ~Resolvable(s, Head(entries)) THEN s
  ELSE LoadLinksAbort(LoadLink(s, Head(entries)), Tail(entries))

RECURSIVE LoadLinks(_, _)
LoadLinks(s, entries) ==
  IF entries = <<>> THEN s
  ELSE LoadLinks(LoadLink(s, Head(entries)), Tail(entries))

\* load(data)
load(s, data) == LoadLinks(LoadNodes(s, data.nodes), data.links)

\* _hitTestPort(point, excludeNode): excludeNode = 0 stands for undefined
Near(s, h, p, point) ==
  LET cx == s.shapes[h].ports[p].cx
      cy == s.shapes[h].ports[p].cy
  IN (point.x - cx) * (point.x - cx) + (point.y - cy) * (point.y - cy)
       < HitThreshold * HitThreshold

NoHit == [node |-> 0, port |-> 0]
hitTestPortNearest(s, point, excludeNode) ==
  LET all == UNION {{<<s.nodes[i].h, p>> : p \in 1..Len(s.shapes[s.nodes[i].h].ports)} :
                      i \in 1..Len(s.nodes)}
      cand == {c \in all : c[1] # excludeNode /\ Near(s, c[1], c[2], point)}
      d2(c) == (point.x - s.shapes[c[1]].ports[c[2]].cx) *
                 (point.x - s.shapes[c[1]].ports[c[2]].cx)
               + (point.y - s.shapes[c[1]].ports[c[2]].cy) *
                 (point.y - s.shapes[c[1]].ports[c[2]].cy)
  IN IF cand = {} THEN NoHit
     ELSE LET best == CHOOSE c \in cand : \A d \in cand : d2(c) <= d2(d)
          IN [node |-> best[1], port |-> best[2]]
hitTestPort(s, point, excludeNode) ==
  LET all == UNION {{<<i, p>> : p \in 1..Len(s.shapes[s.nodes[i].h].ports)} :
                      i \in 1..Len(s.nodes)}
      cand == {c \in all : /\ s.nodes[c[1]].h # excludeNode
                           /\ Near(s, s.nodes[c[1]].h, c[2], point)}
  IN IF cand = {} THEN NoHit
     ELSE LET first == CHOOSE c \in cand :
                         \A d \in cand : c[1] < d[1] \/ (c[1] = d[1] /\ c[2] <= d[2])
          IN [node |-> s.nodes[first[1]].h, port |-> first[2]]

\* LinkManager.startDragLink(source, onComplete): the pointerup listener it
\* installs on window, with what its onComplete closure captured
NoPoint == [x |-> 0, y |-> 0]
NoBox == [x |-> 0, y |-> 0, w |-> 0, h |-> 0]
Gesture(kind, src, e) ==
  [kind |-> kind, src |-> src, edge |-> e, at |-> NoPoint, from |-> NoBox]
startDragLink(s, g) == [s EXCEPT !.win = Append(@, g)]

\* onComplete of _attachPort's port drag
CompletePortDrag(s, g, end) ==
  LET hit == hitTestPort(s, end, g.src.node) IN
  IF hit.node # 0 THEN addLink(s, g.src, PortRef(hit.node, hit.port), "curved")
  ELSE s

\* onComplete of _reconnectEdge; start.node is undefined for a free point
CompleteReconnectBothEnds(s, g, end) ==
  LET hit == hitTestPort(s, end, g.src.node) IN
  IF hit.node # 0
  THEN Emit(SyncStore(UpdateAll(setEndpoints(s, g.edge, PortRef(hit.node, hit.port),
                                             PortRef(hit.node, hit.port)))),
            "diagram:changed", "link:reconnect", g.edge)
  ELSE s
CompleteReconnect(s, g, end) ==
  LET hit == hitTestPort(s, end, g.src.node) IN
  IF hit.node # 0
  THEN Emit(SyncStore(UpdateAll(setEndpoints(s, g.edge, g.src,
                                             PortRef(hit.node, hit.port)))),
            "diagram:changed", "link:reconnect", g.edge)
  ELSE s

\* _reconnectEdge(edge)
reconnectEdge(s, e) ==
  IF s.edges[e].source.kind = "null" THEN s
  ELSE startDragLink(s, Gesture("reconnect", s.edges[e].source, e))

\* the click listener of LinkEdge._attachEvents on the path, with the
\* listeners addLink put on the edge: 'reconnect' -> _reconnectEdge,
\* 'click' -> selectLink(edge, { append: false }), 'remove' -> removeLink
linkClick(s, e, shiftKey) ==
  IF shiftKey THEN reconnectEdge(s, e)
  ELSE LET s1 == selectLink(s, e, FALSE)
       IN IF s1.edges[e].deleteOnClick THEN removeLink(s1, e) ELSE s1

\* the dblclick listener of LinkEdge._attachEvents on the path
linkDblClick(s, e) == removeLink(s, e)

\* node.on('move' / 'resize'): linkManager.updateAll()
OnLayoutChangeNoRefresh(s) == s
OnLayoutChange(s) == UpdateAll(s)

\* node.setPosition(x, y) on an editor node, with the editor's move listener
setPosition(s, h, x, y) ==
  Emit(SyncStore(OnLayoutChange(NodeEmit([s EXCEPT !.shapes[h] = ShapeSetPosition(@, x, y)],
                                         h, "move"))),
       "diagram:changed", "node:move", h)

\* node.setSize(w, h) on an editor node, with the editor's resize listener
setSizeSilent(s, h, width, height) ==
  SyncStore(OnLayoutChange([s EXCEPT !.shapes[h] = ShapeSetSize(@, width, height)]))
setSize(s, h, width, height) ==
  Emit(SyncStore(OnLayoutChange(NodeEmit([s EXCEPT !.shapes[h] = ShapeSetSize(@, width, height)],
                                         h, "resize"))),
       "diagram:changed", "node:resize", h)

\* A gesture that a pointerdown on a node body, on the canvas or on a port
\* starts leaves a pointermove and a pointerup listener on window; `at` is the
\* pointer position and `from` the position or viewBox its closure captured.
\* A pointer event is given by the point getPointerPosition yields for it,
\* which is its client point as long as the viewBox is the svg's own box.
NodeRef(h) == [NoEnd EXCEPT !.kind = "node", !.node = h]
GestureAt(kind, h, at, from) ==
  [kind |-> kind, src |-> NodeRef(h), edge |-> 0, at |-> at, from |-> from]

\* NodeShape._attachDrag, pointerdown on the body or the label: emit('dragstart'),
\* on which the editor sets dragStartPositions[node.id] = { x, y }
startDrag(s, h, pt) ==
  NodeEmit([s EXCEPT !.win = Append(@, GestureAt("drag", h, pt,
                                                 [NoBox EXCEPT !.x = s.shapes[h].x,
                                                               !.y = s.shapes[h].y])),
                     !.dragStartPositions =
                        MapSet(@, s.shapes[h].id,
                               [x |-> s.shapes[h].x, y |-> s.shapes[h].y])],
           h, "dragstart")

\* NodeShape._attachResize, pointerdown on the resize handle: emit('resizestart')
startResize(s, h, pt) ==
  NodeEmit([s EXCEPT !.win = Append(@, GestureAt("resize", h, pt,
                                                 [NoBox EXCEPT !.w = s.shapes[h].width,
                                                               !.h = s.shapes[h].height]))],
           h, "resizestart")

\* the pointerdown listener of LinkEdge._attachEvents on the bend handle
startBend(s, e) ==
  IF s.edges[e].type # "orthogonal" THEN s
  ELSE [s EXCEPT !.win = Append(@, Gesture("bend", NoEnd, e))]

\* the move listener of the bend gesture: this.bend = { x, y }; this.update()
bendMove(s, g, pt) ==
  LET s1 == [s EXCEPT !.edges[g.edge].bend = [set |-> TRUE, x |-> pt.x, y |-> pt.y]]
  IN [s1 EXCEPT !.edges[g.edge] = EdgeUpdate(s1, g.edge)]

\* the overlap test of _handleCollision on two getBounds() results
OverlapOrTouch(a, b) ==
  /\ a.x <= b.x + b.width /\ a.x + a.width >= b.x
  /\ a.y <= b.y + b.height /\ a.y + a.height >= b.y
Overlap(a, b) ==
  /\ a.x < b.x + b.width /\ a.x + a.width > b.x
  /\ a.y < b.y + b.height /\ a.y + a.height > b.y

\* _handleCollision(node), options.collision being true
handleCollision(s, h) ==
  LET node == s.shapes[h]
      hits == {i \in 1..Len(s.nodes) :
                 /\ s.shapes[s.nodes[i].h].id # node.id
                 /\ Overlap(node, s.shapes[s.nodes[i].h])}
      start == MapGet(s.dragStartPositions, node.id)
  IN IF hits # {} /\ MapHas(s.dragStartPositions, node.id)
     THEN setPosition(s, h, start.x, start.y)
     ELSE s

\* { ...a, ...b }: the keys of b override those of a
Spread(a, b) ==
  [k \in DOMAIN a \cup DOMAIN b |-> IF k \in DOMAIN b THEN b[k] ELSE a[k]]

\* _setViewBox
setViewBox(s, next) == [s EXCEPT !.viewBox = next]

\* the move listener of the pan gesture of _handleCanvasPointerDown
panMove(s, g, pt) ==
  LET dx == pt.x * Milli - g.from.x
      dy == pt.y * Milli - g.from.y
  IN setViewBox(s, [x |-> g.from.x - dx, y |-> g.from.y - dy,
                    w |-> g.from.w, h |-> g.from.h])

\* the move listener of _startLasso: setAttrs(this.lasso, { x, y, width, height })
lassoMove(s, g, pt) ==
  [s EXCEPT !.lasso = [on |-> TRUE, x |-> Min(g.at.x, pt.x), y |-> Min(g.at.y, pt.y),
                       width |-> Abs(pt.x - g.at.x), height |-> Abs(pt.y - g.at.y)]]

\* the containment test of _selectWithin
WithinIntersect(bounds, box) ==
  /\ bounds.x <= box.x + box.width /\ bounds.x + bounds.width >= box.x
  /\ bounds.y <= box.y + box.height /\ bounds.y + bounds.height >= box.y
Within(bounds, box) ==
  /\ bounds.x >= box.x /\ bounds.y >= box.y
  /\ bounds.x + bounds.width <= box.x + box.width
  /\ bounds.y + bounds.height <= box.y + box.height

\* _selectWithin(box)
selectWithin(s, box) ==
  Emit([s EXCEPT !.selectedNodes =
          SelectSeq([i \in 1..Len(s.nodes) |-> s.nodes[i].h],
                    LAMBDA h : Within(s.shapes[h], box))],
       "node:select", "", 0)

\* the up listener of _startLasso; getBBox() of the rect is its attributes
lassoUp(s) ==
  IF s.lasso.on THEN selectWithin([s EXCEPT !.lasso = NoLasso], s.lasso) ELSE s

\* _handleCanvasPointerDown for a pointerdown whose target is the svg itself
canvasPointerDown(s, pt, shiftKey) ==
  LET s1 == selectLink(selectNode(s, 0, FALSE), 0, FALSE)
  IN IF s1.isPanning
     THEN [s1 EXCEPT !.win =
             Append(@, GestureAt("pan", 0, pt,
                                 Spread([x |-> pt.x * Milli, y |-> pt.y * Milli],
                                        s1.viewBox)))]
     ELSE IF shiftKey
     THEN [s1 EXCEPT !.lasso.on = TRUE,
                     !.win = Append(@, GestureAt("lasso", 0, pt, NoBox))]
     ELSE s1

\* the keydown / keyup listeners of _bindPanZoom, for the Space key
keydown(s) == [s EXCEPT !.isPanning = TRUE]
keyup(s) == [s EXCEPT !.isPanning = FALSE]

\* the wheel listener of _bindPanZoom at the document point pt: scale 1.1 for
\* deltaY > 0 and 0.9 otherwise, as scale / ScaleDen
wheelUnanchored(s, pt, scale) ==
  setViewBox(s, [s.viewBox EXCEPT !.w = (@ * scale) \div ScaleDen,
                                  !.h = (@ * scale) \div ScaleDen])
wheel(s, pt, scale) ==
  LET v == s.viewBox
      px == pt.x * Milli
      py == pt.y * Milli
  IN setViewBox(s, [x |-> px - ((px - v.x) * scale) \div ScaleDen,
                    y |-> py - ((py - v.y) * scale) \div ScaleDen,
                    w |-> (v.w * scale) \div ScaleDen,
                    h |-> (v.h * scale) \div ScaleDen])

\* a pointermove on window: every move listener installed runs
RECURSIVE FireMove(_, _, _)
FireMove(s, listeners, pt) ==
  IF listeners = <<>> THEN s
  ELSE LET g == Head(listeners) IN
       FireMove(CASE g.kind = "drag" ->
                       setPosition(s, g.src.node, g.from.x + (pt.x - g.at.x),
                                   g.from.y + (pt.y - g.at.y))
                  [] g.kind = "resize" ->
                       setSize(s, g.src.node, g.from.w + (pt.x - g.at.x),
                               g.from.h + (pt.y - g.at.y))
                  [] g.kind = "bend" -> bendMove(s, g, pt)
                  [] g.kind = "pan" -> panMove(s, g, pt)
                  [] g.kind = "lasso" -> lassoMove(s, g, pt)
                  [] OTHER -> s,
                Tail(listeners), pt)

pointermove(s, pt) == FireMove(s, s.win, pt)

\* a pointerup on window: every listener installed runs once and removes itself
RECURSIVE FireUp(_, _, _)
FireUp(s, listeners, end) ==
  IF listeners = <<>> THEN s
  ELSE LET g == Head(listeners) IN
       FireUp(CASE g.kind = "port" -> CompletePortDrag(s, g, end)
                [] g.kind = "reconnect" -> CompleteReconnect(s, g, end)
                [] g.kind = "drag" ->
                     handleCollision(NodeEmit(s, g.src.node, "dragend"), g.src.node)
                [] g.kind = "resize" -> NodeEmit(s, g.src.node, "resizeend")
                [] g.kind = "lasso" -> lassoUp(s)
                [] OTHER -> s,
              Tail(listeners), end)

\* every up listener removes the move listener and itself from window
pointerupKeepListeners(s, end) == FireUp(s, s.win, end)
pointerup(s, end) == FireUp([s EXCEPT !.win = <<>>], s.win, end)

\* node.addPort(side, offset) by a caller: no port drag is attached to it
addPort(s, h, side, offset) ==
  [s EXCEPT !.shapes[h] = ShapeAddPort(@, side, offset, uuid("port", s.uid), FALSE),
            !.uid = @ + 1]

\* new DiagramEditor(svg), when the k-th uuid() call is the next one; the svg
\* has no viewBox attribute and no client size: _initViewBox gives 0 0 800 600
NewEditor(k) ==
  [shapes |-> <<>>, edges |-> <<>>, nodes |-> <<>>, links |-> <<>>, lmEdges |-> <<>>,
   undoStack |-> <<>>, redoStack |-> <<>>, uid |-> k, win |-> <<>>,
   selectedNodes |-> <<>>, selectedLinks |-> <<>>, selected |-> 0,
   store |-> [nodes |-> <<>>, links |-> <<>>],
   viewBox |-> [x |-> 0, y |-> 0, w |-> 800 * Milli, h |-> 600 * Milli],
   isPanning |-> FALSE, dragStartPositions |-> <<>>, lasso |-> NoLasso,
   events |-> <<>>]

(***************************************************************************)
(* History variables.  lastCall names the call that produced the state and *)
(* the object it was about.  hist follows the current run of consecutive   *)
(* structural calls (addNode, addLink, removeNode, removeLink): run[i] is  *)
(* the node-id set and link set before the i-th remembered call, post the  *)
(* sets after the last one, undone / redone the undo() / redo() calls made *)
(* since.  Phase "off": the run is not followed.                           *)
(***************************************************************************)
Call(op, arg) == [op |-> op, arg |-> arg]

Snapshot(s) == [ids |-> MapKeys(s.nodes), links |-> Range(s.links)]
NoHist ==
  [run |-> <<>>, post |-> [ids |-> {}, links |-> {}], phase |-> "idle",
   undone |-> 0, redone |-> 0]
HistOff == [NoHist EXCEPT !.phase = "off"]
LastOf(q, n) == IF Len(q) <= n THEN q ELSE SubSeq(q, Len(q) - n + 1, Len(q))
HistStructural(pre, post) ==
  IF hist.phase = "off" THEN hist
  ELSE [run |-> LastOf(IF hist.phase = "ops" THEN Append(hist.run, Snapshot(pre))
                       ELSE <<Snapshot(pre)>>, MaxRun),
        post |-> Snapshot(post), phase |-> "ops", undone |-> 0, redone |-> 0]
HistUndo ==
  IF hist.phase = "off" THEN hist
  ELSE IF hist.phase \in {"ops", "undo"} /\ hist.undone < Len(hist.run)
  THEN [hist EXCEPT !.phase = "undo", !.undone = @ + 1]
  ELSE NoHist
HistRedo ==
  IF hist.phase = "off" THEN hist
  ELSE IF hist.phase \in {"undo", "redo"} /\ hist.redone < hist.undone
  THEN [hist EXCEPT !.phase = "redo", !.redone = @ + 1]
  ELSE NoHist
HistOther == IF hist.phase = "off" THEN hist ELSE NoHist

(***************************************************************************)
(* PresentationManager (presentation-manager.js).  A slide element is an   *)
(* index into `slideEls`; of its classes is-hidden, is-in and is-out are   *)
(* kept, and whether the stage holds it.  Slide indices are the code's,    *)
(* from 0.  Thumbnails, progress bar and notes panel are written and never *)
(* read back, and are left out.                                            *)
(***************************************************************************)
\* constructor
NewPresentation ==
  [els |-> <<>>, slides |-> <<>>, store |-> [slides |-> <<>>, activeIndex |-> 0],
   timers |-> <<>>, frames |-> {}, events |-> <<>>]

\* this.slides[index], 0 for undefined
SlideAt(p, index) ==
  IF index >= 0 /\ index < Len(p.slides) THEN p.slides[index + 1].el ELSE 0

\* bus.emit(name, payload)
PmEmit(p, name, index, el) ==
  [p EXCEPT !.events = Append(@, [name |-> name, index |-> index, el |-> el])]

\* _syncStore
pmSyncStore(p) ==
  [p EXCEPT !.store = [slides |-> [i \in 1..Len(p.slides) |-> p.slides[i].el],
                       activeIndex |-> p.store.activeIndex]]

\* _applyTransition(slide, direction, animate)
applyTransition(p, el, direction, animate) ==
  LET p1 == [p EXCEPT !.els[el].hidden = FALSE, !.els[el].isIn = FALSE,
                      !.els[el].isOut = FALSE]
  IN IF ~animate THEN [p1 EXCEPT !.els[el].hidden = (direction = "out")]
     ELSE IF direction = "in"
          THEN [p1 EXCEPT !.els[el].isIn = TRUE, !.frames = @ \cup {el}]
          ELSE [p1 EXCEPT !.els[el].isOut = TRUE, !.timers = Append(@, el)]

\* _activateSlide(index, animate)
activateSlide(p, index, animate) ==
  LET current == SlideAt(p, p.store.activeIndex)
      next == SlideAt(p, index)
  IN IF p.store.activeIndex = index \/ next = 0 THEN p
     ELSE LET p1 == IF current # 0 THEN applyTransition(p, current, "out", animate)
                    ELSE p
              p2 == applyTransition(p1, next, "in", animate)
          IN PmEmit([p2 EXCEPT !.store.activeIndex = index], "slide:change", index, next)

\* addSlide(content, options)
addSlide(p) ==
  LET el == Len(p.els) + 1
      p1 == [p EXCEPT !.els = Append(@, [hidden |-> FALSE, isIn |-> FALSE,
                                         isOut |-> FALSE, inStage |-> TRUE]),
                      !.slides = Append(@, [el |-> el, id |-> uuid("slide", el)])]
      p2 == IF Len(p1.slides) = 1 THEN activateSlide(p1, 0, FALSE)
            ELSE [p1 EXCEPT !.els[el].hidden = TRUE]
  IN PmEmit(pmSyncStore(p2), "slide:add", Len(p.slides), el)

\* removeSlide(index)
removeSlideKeepIndex(p, index) ==
  LET el == SlideAt(p, index) IN
  IF el = 0 THEN p
  ELSE LET p1 == [p EXCEPT !.els[el].inStage = FALSE,
                           !.slides = SubSeq(@, 1, index) \o SubSeq(@, index + 2, Len(@))]
           nextIndex == p1.store.activeIndex
       IN PmEmit(pmSyncStore(activateSlide(p1, nextIndex, FALSE)), "slide:remove", index, el)
removeSlide(p, index) ==
  LET el == SlideAt(p, index) IN
  IF el = 0 THEN p
  ELSE LET p1 == [p EXCEPT !.els[el].inStage = FALSE,
                           !.slides = SubSeq(@, 1, index) \o SubSeq(@, index + 2, Len(@))]
           nextIndex == Max(0, Min(p1.store.activeIndex, Len(p1.slides) - 1))
       IN PmEmit(pmSyncStore(activateSlide(p1, nextIndex, FALSE)), "slide:remove", index, el)

\* goTo(index)
goTo(p, index) ==
  IF index < 0 \/ index >= Len(p.slides) THEN p
  ELSE activateSlide(p, index, TRUE)

\* next()
next(p) == goTo(p, p.store.activeIndex + 1)

\* prev()
prev(p) == goTo(p, p.store.activeIndex - 1)

\* the keydown listener of _bindKeyboard
onKeyDown(p, key) ==
  LET p1 == IF key \in {"ArrowRight", "PageDown"} THEN next(p) ELSE p
  IN IF key \in {"ArrowLeft", "PageUp"} THEN prev(p1) ELSE p1

\* the setTimeout callback of _applyTransition for the slide el
hideAfterOut(p, el) == [p EXCEPT !.els[el].hidden = TRUE, !.els[el].isOut = FALSE]

\* the requestAnimationFrame callbacks of _applyTransition, run in one frame:
\* each removes is-in from its slide
runFrames(p, pending) ==
  [p EXCEPT !.els = [el \in 1..Len(p.els) |->
                       IF el \in pending THEN [p.els[el] EXCEPT !.isIn = FALSE]
                       ELSE p.els[el]]]

(***************************************************************************)
(* The state machine.  events holds the signals of the last call only: a   *)
(* step keeps what the call appended to the log it started with.           *)
(***************************************************************************)
Cur ==
  [shapes |-> shapes, edges |-> edges, nodes |-> nodes, links |-> links,
   lmEdges |-> lmEdges, undoStack |-> undoStack, redoStack |-> redoStack,
   uid |-> uid, win |-> win,
   selectedNodes |-> selectedNodes, selectedLinks |-> selectedLinks,
   selected |-> selected, store |-> store, viewBox |-> viewBox,
   isPanning |-> isPanning, dragStartPositions |-> dragStartPositions,
   lasso |-> lasso, events |-> events]

Commit(r, call, h) ==
  /\ Len(r.shapes) <= MaxShapes
  /\ Len(r.edges) <= MaxEdges
  /\ shapes' = r.shapes
  /\ edges' = r.edges
  /\ nodes' = r.nodes
  /\ links' = r.links
  /\ lmEdges' = r.lmEdges
  /\ undoStack' = r.undoStack
  /\ redoStack' = r.redoStack
  /\ uid' = r.uid
  /\ win' = r.win
  /\ selectedNodes' = r.selectedNodes
  /\ selectedLinks' = r.selectedLinks
  /\ selected' = r.selected
  /\ store' = r.store
  /\ viewBox' = r.viewBox
  /\ isPanning' = r.isPanning
  /\ dragStartPositions' = r.dragStartPositions
  /\ lasso' = r.lasso
  /\ events' = SubSeq(r.events, Len(events) + 1, Len(r.events))
  /\ lastCall' = call
  /\ hist' = h
  /\ UNCHANGED pmVars

\* the program in state s, the history variables as given
EditorState(s, call, h) ==
  /\ shapes = s.shapes
  /\ edges = s.edges
  /\ nodes = s.nodes
  /\ links = s.links
  /\ lmEdges = s.lmEdges
  /\ undoStack = s.undoStack
  /\ redoStack = s.redoStack
  /\ uid = s.uid
  /\ win = s.win
  /\ selectedNodes = s.selectedNodes
  /\ selectedLinks = s.selectedLinks
  /\ selected = s.selected
  /\ store = s.store
  /\ viewBox = s.viewBox
  /\ isPanning = s.isPanning
  /\ dragStartPositions = s.dragStartPositions
  /\ lasso = s.lasso
  /\ events = s.events
  /\ lastCall = call
  /\ hist = h

\* the presentation in state p
PresentationState(p, call) ==
  /\ slideEls = p.els
  /\ slides = p.slides
  /\ pmStore = p.store
  /\ timers = p.timers
  /\ frames = p.frames
  /\ pmEvents = p.events
  /\ pmCall = call

\* the editor in state s beside a new presentation
InState(s, call, h) ==
  /\ EditorState(s, call, h)
  /\ PresentationState(NewPresentation, Call("new", 0))

\* new DiagramEditor(svg), new PresentationManager(container)
Init == InState(NewEditor(1), Call("new", 0), HistOff)

\* Inputs.  A at (0,0,100,100) with a right port at 0.5 and B at (300,0,100,100)
\* with a left port at 0.5; S snaps to a grid of 50 and has a bottom port;
\* addNode({}) takes every default and has no port.
AllKeys == {"id", "x", "y", "width", "height", "label", "ports", "snap"}
Options(has, id, x, y, w, h, label, ports, snap) ==
  [has |-> has, id |-> id, x |-> x, y |-> y, width |-> w, height |-> h,
   label |-> label, ports |-> ports, snap |-> snap]
PortCfg(side, offset) == [id |-> NoId, side |-> side, offset |-> offset]
CfgA == Options(AllKeys \ {"id", "snap"}, NoId, 0, 0, 100, 100, "A",
                <<PortCfg("right", 50)>>, 0)
CfgB == Options(AllKeys \ {"id", "snap"}, NoId, 300, 0, 100, 100, "B",
                <<PortCfg("left", 50)>>, 0)
CfgEmpty == Options({}, NoId, 0, 0, 0, 0, "", <<>>, 0)
CfgSnap == Options(AllKeys \ {"id"}, NoId, 0, 0, 100, 100, "S",
                   <<PortCfg("bottom", 50)>>, 50)
\* T snaps to a grid of 50 and is made off the grid, at (30,30)
CfgSnapOff == Options(AllKeys \ {"id", "ports"}, NoId, 30, 30, 100, 100, "T", <<>>, 50)
\* o with minWidth and minHeight configured
WithMin(o, minWidth, minHeight) ==
  [k \in DOMAIN o \cup {"minWidth", "minHeight"} |->
     CASE k = "has" -> o.has \cup {"minWidth", "minHeight"}
       [] k = "minWidth" -> minWidth
       [] k = "minHeight" -> minHeight
       [] OTHER -> o[k]]
\* U is 40 x 30, below the default minimums 80 and 50; V is 200 x 150 with
\* the minimums 120 and 90; W has a minimum width above 2000
CfgSmall == Options(AllKeys \ {"id", "snap", "ports"}, NoId, 0, 0, 40, 30, "U", <<>>, 0)
CfgMin == WithMin(Options(AllKeys \ {"id", "snap"}, NoId, 0, 0, 200, 150, "V",
                          <<PortCfg("bottom", 50)>>, 0), 120, 90)
CfgHighMin == WithMin(Options(AllKeys \ {"id", "snap", "ports"}, NoId, 0, 0, 2400, 100,
                              "W", <<>>, 0), 2400, 60)
ResizeConfigs == {CfgA, CfgSmall, CfgMin, CfgHighMin}
\* where a resize starts, and moves by (+1000,+1000) and by (-1000,-1000)
\* sizes in range, below the minimums, above 2000, and between 2000 and W's minimum
ResizeSizes == {[w |-> 200, h |-> 100], [w |-> 40, h |-> 3000], [w |-> 2200, h |-> 70]}
ResizeGrabs == {[x |-> 100, y |-> 100]}
ResizePoints == {[x |-> 1100, y |-> 1100], [x |-> 0 - 900, y |-> 0 - 900]}
\* where the pointer of any gesture moves to, and where it is released
GesturePoints == {[x |-> 1100, y |-> 1100]}
GestureEnds == {[x |-> 600, y |-> 600]}
SnapConfigs == {CfgA, CfgSnap, CfgSnapOff}
\* on the grid of 50; off it; halfway between grid lines, below and above zero
SnapPositions == {[x |-> 300, y |-> 200], [x |-> 320, y |-> 30], [x |-> 0 - 25, y |-> 75]}
\* where the bend handle is dragged to
BendPoints == {[x |-> 180, y |-> 90]}
\* drags of A from (50,50) by (+200,0), which puts it edge to edge with B, and
\* by (+270,0), onto B; a setPosition and a setSize that put A onto B
DropPoints == {[x |-> 250, y |-> 50], [x |-> 320, y |-> 50]}
DropPositions == {[x |-> 270, y |-> 0]}
DropSizes == {[w |-> 350, h |-> 100]}
NodeConfigs == {CfgA, CfgB}
DragConfigs == {CfgA, CfgSnapOff}
\* where a drag of a node body starts; a move onto B and a move clear of it
GrabPoints == {[x |-> 50, y |-> 50]}
\* where a lasso starts, left of A and left of B; a corner inside B and one
\* beyond B
LassoStarts == {[x |-> 0 - 10, y |-> 0 - 10], [x |-> 200, y |-> 0 - 10]}
LassoPoints == {[x |-> 350, y |-> 150], [x |-> 450, y |-> 150]}
\* where a pan starts and where its pointer moves to (client points)
PanStarts == {[x |-> 100, y |-> 100]}
PanPoints == {[x |-> 110, y |-> 100], [x |-> 100, y |-> 130]}
WheelPoints == {[x |-> 400, y |-> 300]}
\* release points between B's ports at 0.5 and 0.55, between A's right port
\* and B's left port when B is at (110,0), and far from every port
HitPoints == {[x |-> 300, y |-> 54], [x |-> 106, y |-> 50], [x |-> 600, y |-> 600]}
HitPorts == {PortCfg("left", 55)}
HitPositions == {[x |-> 110, y |-> 0]}
DragPoints == {[x |-> 320, y |-> 50], [x |-> 50, y |-> 260]}
ShapeConfigs == {CfgA, CfgB, CfgSnap, CfgEmpty}

Entry(id, x, y, w, h, label, ports) ==
  [id |-> id, x |-> x, y |-> y, width |-> w, height |-> h, label |-> label,
   ports |-> ports]
PortEntry(id, side, offset) == [id |-> id, side |-> side, offset |-> offset]
LinkEntry(source, target) == [source |-> source, target |-> target]
\* two nodes with a port each; a link with a null target, a link between the
\* two nodes, a link from an unknown id
DocAB ==
  [nodes |-> <<Entry(CallerId(1), 0, 0, 100, 100, "A",
                     <<PortEntry(CallerId(11), "right", 50)>>),
               Entry(CallerId(2), 300, 0, 100, 100, "B",
                     <<PortEntry(CallerId(12), "left", 50)>>)>>,
   links |-> <<LinkEntry(CallerId(1), NoId),
               LinkEntry(CallerId(1), CallerId(2)),
               LinkEntry(CallerId(9), CallerId(2))>>]
\* the first node of DocAB alone, linked to itself
DocA ==
  [nodes |-> <<Entry(CallerId(1), 0, 0, 100, 100, "A",
                     <<PortEntry(CallerId(11), "right", 50)>>)>>,
   links |-> <<LinkEntry(CallerId(1), CallerId(1))>>]
\* one node without ports under the same id, linked to itself
DocPortless ==
  [nodes |-> <<Entry(CallerId(1), 40, 40, 160, 80, "P", <<>>)>>,
   links |-> <<LinkEntry(CallerId(1), CallerId(1))>>]
Docs == <<DocAB, DocA, DocPortless>>

LinkTypes == {"curved", "straight", "orthogonal"}
FreePoints == {FreePoint(200, 100)}
\* the ports of the nodes in the node map
PortEndpoints ==
  UNION {{PortRef(h, p) : p \in 1..Len(shapes[h].ports)} : h \in MapValues(nodes)}
Endpoints == PortEndpoints \cup FreePoints
\* on B's left port, on A's right port, nowhere near a port
ReleasePoints == {[x |-> 300, y |-> 50], [x |-> 100, y |-> 50], [x |-> 600, y |-> 600]}
Positions == {[x |-> 300, y |-> 200], [x |-> 320, y |-> 30]}
Sizes == {[w |-> 200, h |-> 100], [w |-> 40, h |-> 3000]}
\* B's place after the move of the scenario, and A's first place
GeomPositions == {[x |-> 300, y |-> 200], [x |-> 0, y |-> 0]}
GeomSizes == {[w |-> 200, h |-> 100]}
PortChoices == {PortCfg("top", 50), PortCfg("left", 100)}
AllIds == {shapes[h].id : h \in 1..Len(shapes)}

AddNode(o) ==
  LET r == addNode(Cur, o) IN
  Commit(r, Call("addNode", Len(r.shapes)), HistStructural(Cur, r))

RemoveNode(id) ==
  LET r == removeNode(Cur, id) IN
  Commit(r, Call("removeNode", MapGet(nodes, id)), HistStructural(Cur, r))

AddLink(source, target, type) ==
  LET r == addLink(Cur, source, target, type) IN
  Commit(r, Call("addLink", Len(r.edges)), HistStructural(Cur, r))

RemoveLink(e) ==
  LET r == removeLink(Cur, e) IN
  Commit(r, Call("removeLink", IF e \in Range(links) THEN e ELSE 0),
         HistStructural(Cur, r))

Undo == Commit(undo(Cur), Call("undo", 0), HistUndo)

Redo == Commit(redo(Cur), Call("redo", 0), HistRedo)

Load(d) == Commit(load(Cur, Docs[d]), Call("load", d), HistOther)

\* exportJSON(): the editor is left as it is; lastCall holds what is returned
ExportJSON == Commit(Cur, Call("exportJSON", exportJSON(Cur)), HistOther)

\* The presentation's calls; pmEvents holds the signals of the call only.
PmCur ==
  [els |-> slideEls, slides |-> slides, store |-> pmStore, timers |-> timers,
   frames |-> frames, events |-> <<>>]

PmCommit(r, call) ==
  /\ Len(r.els) <= MaxSlides
  /\ Len(r.timers) <= MaxTimers
  /\ slideEls' = r.els
  /\ slides' = r.slides
  /\ pmStore' = r.store
  /\ timers' = r.timers
  /\ frames' = r.frames
  /\ pmEvents' = r.events
  /\ pmCall' = call
  /\ UNCHANGED editorVars

AddSlide == PmCommit(addSlide(PmCur), Call("addSlide", 0))
RemoveSlide(index) == PmCommit(removeSlide(PmCur, index), Call("removeSlide", index))
GoTo(index) == PmCommit(goTo(PmCur, index), Call("goTo", index))
NextSlide == PmCommit(next(PmCur), Call("next", 0))
PrevSlide == PmCommit(prev(PmCur), Call("prev", 0))
SlideKeyDown(key) == PmCommit(onKeyDown(PmCur, key), Call("keydown", key))

\* the oldest pending timeout runs; the duration is the same for all
TimerFires ==
  /\ timers # <<>>
  /\ PmCommit([hideAfterOut(PmCur, Head(timers)) EXCEPT !.timers = Tail(@)],
              Call("timeout", Head(timers)))

\* the next animation frame runs the callbacks requested so far
FrameFires ==
  /\ frames # {}
  /\ PmCommit([runFrames(PmCur, frames) EXCEPT !.frames = {}], Call("frame", 0))

\* pointerdown on a port element that carries the editor's port drag
PortPointerDown(h, p) ==
  /\ shapes[h].inDom
  /\ shapes[h].ports[p].drag
  /\ Len(win) < MaxGestures
  /\ Commit(startDragLink(Cur, Gesture("port", PortRef(h, p), 0)),
            Call("portdown", h), HistOther)

\* shift-click on the path of a link: emit('reconnect') -> _reconnectEdge
ReconnectRequest(e) ==
  /\ edges[e].inDom
  /\ edges[e].source.kind # "null"
  /\ Len(win) < MaxGestures
  /\ Commit(startDragLink(Cur, Gesture("reconnect", edges[e].source, e)),
            Call("reconnect", e), HistOther)

\* click on the path of a link, with or without the shift key
LinkClick(e, shiftKey) ==
  /\ edges[e].inDom
  /\ Len(win) < MaxGestures
  /\ Commit(linkClick(Cur, e, shiftKey), Call("click", e), HistOther)

\* double click on the path of a link
LinkDblClick(e) ==
  /\ edges[e].inDom
  /\ Commit(linkDblClick(Cur, e), Call("dblclick", e), HistOther)

\* pointerup on window while a gesture is in flight
PointerUp(end) ==
  /\ win # <<>>
  /\ Commit(pointerup(Cur, end), Call("pointerup", 0), HistOther)

SetPosition(h, pos) ==
  Commit(setPosition(Cur, h, pos.x, pos.y), Call("setPosition", h), HistOther)

SetSize(h, size) ==
  Commit(setSize(Cur, h, size.w, size.h), Call("setSize", h), HistOther)

\* node.setPosition(node.x, node.y)
SetPositionOwn(h) ==
  Commit(setPosition(Cur, h, shapes[h].x, shapes[h].y), Call("setPositionOwn", h),
         HistOther)

AddPort(h, port) ==
  /\ Len(shapes[h].ports) < MaxPorts
  /\ Commit(addPort(Cur, h, port.side, port.offset), Call("addPort", h), HistOther)

\* pointerdown on the body or the label of a node
NodePointerDown(h, pt) ==
  /\ shapes[h].inDom
  /\ Len(win) < MaxGestures
  /\ shapes[h].x <= MaxCoord /\ shapes[h].y <= MaxCoord
  /\ Commit(startDrag(Cur, h, pt), Call("dragstart", h), HistOther)

\* pointerdown on the resize handle of a node
ResizePointerDown(h, pt) ==
  /\ shapes[h].inDom
  /\ Len(win) < MaxGestures
  /\ Commit(startResize(Cur, h, pt), Call("resizestart", h), HistOther)

\* pointerdown on the bend handle of a link; the handle is in the document
\* once update() has run on an orthogonal link with both endpoints
BendPointerDown(e) ==
  /\ edges[e].inDom
  /\ edges[e].type = "orthogonal"
  /\ edges[e].bend.set
  /\ Len(win) < MaxGestures
  /\ Commit(startBend(Cur, e), Call("benddown", e), HistOther)

\* pointermove on window while a gesture is in flight
PointerMove(pt) ==
  /\ win # <<>>
  /\ Commit(pointermove(Cur, pt), Call("pointermove", 0), HistOther)

\* pointermove on window, whether or not a gesture is in flight
WindowPointerMove(pt) ==
  Commit(pointermove(Cur, pt), Call("pointermove", 0), HistOther)

\* pointerdown on the svg itself
CanvasPointerDown(pt, shiftKey) ==
  /\ Len(win) < MaxGestures
  /\ Commit(canvasPointerDown(Cur, pt, shiftKey), Call("canvasdown", 0), HistOther)

KeyDown == Commit(keydown(Cur), Call("keydown", 0), HistOther)

KeyUp == Commit(keyup(Cur), Call("keyup", 0), HistOther)

\* the quotients the wheel listener forms are whole thousandths
Exact(v, pt, scale) ==
  /\ ((pt.x * Milli - v.x) * scale) % ScaleDen = 0
  /\ ((pt.y * Milli - v.y) * scale) % ScaleDen = 0
  /\ (v.w * scale) % ScaleDen = 0
  /\ (v.h * scale) % ScaleDen = 0

\* wheel on the svg at the document point pt
Wheel(pt, scale) ==
  /\ Exact(viewBox, pt, scale)
  /\ Commit(wheel(Cur, pt, scale), Call("wheel", scale), HistOther)

SelectNode(node, append) ==
  Commit(selectNode(Cur, node, append), Call("selectNode", node), HistOther)

SelectLink(edge, append) ==
  Commit(selectLink(Cur, edge, append), Call("selectLink", edge), HistOther)

(***************************************************************************)
(* Spec: every editor operation and link gesture.                          *)
(***************************************************************************)
Next ==
  \/ \E o \in NodeConfigs : AddNode(o)
  \/ \E id \in AllIds : RemoveNode(id)
  \/ \E source \in PortEndpoints : \E target \in Endpoints \ {source} :
       AddLink(source, target, "curved")
  \/ \E e \in 1..Len(edges) : RemoveLink(e)
  \/ Undo
  \/ Redo
  \/ \E d \in 1..Len(Docs) : Load(d)
  \/ \E h \in 1..Len(shapes) : \E p \in 1..Len(shapes[h].ports) : PortPointerDown(h, p)
  \/ \E e \in 1..Len(edges) : ReconnectRequest(e)
  \/ \E end \in ReleasePoints : PointerUp(end)

Spec == Init /\ [][Next]_vars

(***************************************************************************)
(* SpecDrag: port drags and reconnects among addNode, removeNode and undo. *)
(***************************************************************************)
NextDrag ==
  \/ \E o \in NodeConfigs : AddNode(o)
  \/ \E id \in AllIds : RemoveNode(id)
  \/ Undo
  \/ \E h \in 1..Len(shapes) : \E p \in 1..Len(shapes[h].ports) : PortPointerDown(h, p)
  \/ \E e \in 1..Len(edges) : ReconnectRequest(e)
  \/ \E end \in ReleasePoints : PointerUp(end)

SpecDrag == Init /\ [][NextDrag]_vars

(***************************************************************************)
(* SpecHist: the structural calls, undo and redo, with the run followed.   *)
(***************************************************************************)
InitHist == InState(NewEditor(1), Call("new", 0), NoHist)

NextHist ==
  \/ \E o \in NodeConfigs : AddNode(o)
  \/ \E id \in AllIds : RemoveNode(id)
  \/ \E source \in PortEndpoints : \E target \in Endpoints \ {source} :
       AddLink(source, target, "curved")
  \/ \E e \in 1..Len(edges) : RemoveLink(e)
  \/ Undo
  \/ Redo

SpecHist == InitHist /\ [][NextHist]_vars

(***************************************************************************)
(* SpecCascade: the structural calls alone.                                *)
(***************************************************************************)
NextCascade ==
  \/ AddNode(CfgA)
  \/ \E id \in AllIds : RemoveNode(id)
  \/ \E source \in PortEndpoints : \E target \in Endpoints \ {source} :
       AddLink(source, target, "curved")
  \/ \E e \in 1..Len(edges) : RemoveLink(e)

SpecCascade == Init /\ [][NextCascade]_vars

(***************************************************************************)
(* SpecLoad: load(data) among addNode, removeNode and undo.                *)
(***************************************************************************)
NextLoad ==
  \/ AddNode(CfgB)
  \/ \E id \in AllIds : RemoveNode(id)
  \/ Undo
  \/ \E d \in 1..Len(Docs) : Load(d)

SpecLoad == Init /\ [][NextLoad]_vars

(***************************************************************************)
(* SpecShape: one node, made by addNode(o) on a new editor, under          *)
(* setPosition, setSize and addPort.                                       *)
(***************************************************************************)
InitShape ==
  \E o \in ShapeConfigs : InState(addNode(NewEditor(1), o), Call("addNode", 1), HistOff)

NextShape ==
  \/ \E pos \in Positions : SetPosition(1, pos)
  \/ \E size \in Sizes : SetSize(1, size)
  \/ \E port \in PortChoices : AddPort(1, port)

SpecShape == InitShape /\ [][NextShape]_vars

(***************************************************************************)
(* SpecGeom: nodes A and B on a new editor, linked and then moved and      *)
(* resized.                                                                *)
(***************************************************************************)
InitGeom ==
  InState(addNode(addNode(NewEditor(1), CfgA), CfgB), Call("addNode", 2), HistOff)

NextGeom ==
  \/ /\ Len(edges) < MaxGeomLinks
     /\ \E source \in PortEndpoints : \E target \in Endpoints \ {source} :
          \E type \in LinkTypes : AddLink(source, target, type)
  \/ \E h \in 1..Len(shapes) : \E pos \in GeomPositions : SetPosition(h, pos)
  \/ \E h \in 1..Len(shapes) : \E size \in GeomSizes : SetSize(h, size)

SpecGeom == InitGeom /\ [][NextGeom]_vars

(***************************************************************************)
(* SpecSelect: selectNode and selectLink, with any target and append flag, *)
(* on an editor with the nodes A and B, among addLink from A to B.         *)
(***************************************************************************)
InitSelect ==
  InState(addNode(addNode(NewEditor(1), CfgA), CfgB), Call("addNode", 2), HistOff)

NextSelect ==
  \/ AddLink(PortRef(1, 1), PortRef(2, 1), "curved")
  \/ \E node \in 0..Len(shapes) : \E append \in BOOLEAN : SelectNode(node, append)
  \/ \E edge \in 0..Len(edges) : \E append \in BOOLEAN : SelectLink(edge, append)

SpecSelect == InitSelect /\ [][NextSelect]_vars

(***************************************************************************)
(* SpecCollide: B and one more node on a new editor, dragged by their      *)
(* bodies.                                                                 *)
(***************************************************************************)
InitCollide ==
  \E o \in DragConfigs :
    InState(addNode(addNode(NewEditor(1), CfgB), o), Call("addNode", 2), HistOff)

NextCollide ==
  \/ \E h \in 1..Len(shapes) : \E pt \in GrabPoints : NodePointerDown(h, pt)
  \/ \E pt \in DragPoints : PointerMove(pt)
  \/ \E end \in ReleasePoints : PointerUp(end)

SpecCollide == InitCollide /\ [][NextCollide]_vars

(***************************************************************************)
(* SpecLasso: lassos over the nodes A and B, among selectNode calls.       *)
(***************************************************************************)
NextLasso ==
  \/ \E pt \in LassoStarts : \E shiftKey \in BOOLEAN : CanvasPointerDown(pt, shiftKey)
  \/ \E pt \in LassoPoints : PointerMove(pt)
  \/ \E end \in ReleasePoints : PointerUp(end)
  \/ \E node \in 0..Len(shapes) : \E append \in BOOLEAN : SelectNode(node, append)

SpecLasso == InitSelect /\ [][NextLasso]_vars

(***************************************************************************)
(* SpecView: pan gestures (Space held) and wheel zooms on a new editor.    *)
(***************************************************************************)
NextView ==
  \/ KeyDown
  \/ KeyUp
  \/ /\ Abs(viewBox.x) <= MaxPan * Milli /\ Abs(viewBox.y) <= MaxPan * Milli
     /\ \E pt \in PanStarts : CanvasPointerDown(pt, FALSE)
  \/ \E pt \in PanPoints : PointerMove(pt)
  \/ \E end \in ReleasePoints : PointerUp(end)
  \/ \E pt \in WheelPoints : \E scale \in {ScaleIn, ScaleOut} : Wheel(pt, scale)

SpecView == Init /\ [][NextView]_vars

(***************************************************************************)
(* SpecHit: port drags released near the ports of A and B, B having got a  *)
(* second port or having been moved next to A.                             *)
(***************************************************************************)
NextHit ==
  \/ \E port \in HitPorts : AddPort(2, port)
  \/ \E pos \in HitPositions : SetPosition(2, pos)
  \/ \E h \in 1..Len(shapes) : \E p \in 1..Len(shapes[h].ports) : PortPointerDown(h, p)
  \/ \E end \in HitPoints : PointerUp(end)

SpecHit == InitSelect /\ [][NextHit]_vars

(***************************************************************************)
(* SpecNoop: the structural calls on one kind of node, with ids that are   *)
(* not or no longer in the node map and links that are no longer tracked,  *)
(* the first node being selected at some time.                             *)
(***************************************************************************)
NextNoop ==
  \/ AddNode(CfgA)
  \/ \E id \in AllIds \cup {CallerId(9)} : RemoveNode(id)
  \/ \E source \in PortEndpoints : \E target \in FreePoints :
       AddLink(source, target, "curved")
  \/ \E e \in 1..Len(edges) : RemoveLink(e)
  \/ /\ selectedNodes = <<>> /\ shapes # <<>>
     /\ SelectNode(1, FALSE)

SpecNoop == Init /\ [][NextNoop]_vars

(***************************************************************************)
(* SpecUndo: undo and redo among addNode and addLink.                      *)
(***************************************************************************)
NextUndo ==
  \/ AddNode(CfgA)
  \/ \E source \in PortEndpoints : \E target \in FreePoints :
       AddLink(source, target, "curved")
  \/ Undo
  \/ Redo

SpecUndo == Init /\ [][NextUndo]_vars

(***************************************************************************)
(* SpecClick: clicks, shift-clicks and double clicks on the links added    *)
(* from A to B.                                                            *)
(***************************************************************************)
NextClick ==
  \/ \E type \in LinkTypes : AddLink(PortRef(1, 1), PortRef(2, 1), type)
  \/ \E e \in 1..Len(edges) : \E shiftKey \in BOOLEAN : LinkClick(e, shiftKey)
  \/ \E e \in 1..Len(edges) : LinkDblClick(e)
  \/ \E edge \in 0..Len(edges) : SelectLink(edge, FALSE)
  \/ \E end \in ReleasePoints : PointerUp(end)

SpecClick == InitSelect /\ [][NextClick]_vars

(***************************************************************************)
(* SpecResize: one node, made by addNode(o) on a new editor, under setSize *)
(* calls and resize gestures.                                              *)
(***************************************************************************)
InitResize ==
  \E o \in ResizeConfigs :
    InState(addNode(NewEditor(1), o), Call("addNode", 1), HistOff)

NextResize ==
  \/ \E size \in ResizeSizes : SetSize(1, size)
  \/ \E pt \in ResizeGrabs : ResizePointerDown(1, pt)
  \/ \E pt \in ResizePoints : PointerMove(pt)
  \/ \E end \in ReleasePoints : PointerUp(end)

SpecResize == InitResize /\ [][NextResize]_vars

(***************************************************************************)
(* SpecGesture: the six gestures (drag and resize of A, bend of the        *)
(* orthogonal link from A to B, lasso, pan, port drag), one after another, *)
(* with pointer moves at any time.                                         *)
(***************************************************************************)
InitGesture ==
  InState(addLink(addNode(addNode(NewEditor(1), CfgA), CfgB),
                  PortRef(1, 1), PortRef(2, 1), "orthogonal"),
          Call("addLink", 1), HistOff)

NextGesture ==
  \/ \E pt \in GrabPoints : NodePointerDown(1, pt)
  \/ \E pt \in ResizeGrabs : ResizePointerDown(1, pt)
  \/ BendPointerDown(1)
  \/ PortPointerDown(1, 1)
  \/ KeyDown
  \/ KeyUp
  \/ /\ Abs(viewBox.x) <= MaxPan * Milli /\ Abs(viewBox.y) <= MaxPan * Milli
     /\ \E pt \in PanStarts : \E shiftKey \in BOOLEAN : CanvasPointerDown(pt, shiftKey)
  \/ \E pt \in GesturePoints : WindowPointerMove(pt)
  \/ \E end \in GestureEnds : PointerUp(end)

SpecGesture == InitGesture /\ [][NextGesture]_vars

(***************************************************************************)
(* SpecRemove: removeNode on the nodes A and B with links between their    *)
(* ports and to a free point.                                              *)
(***************************************************************************)
NextRemove ==
  \/ \E source \in PortEndpoints : \E target \in Endpoints \ {source} :
       AddLink(source, target, "curved")
  \/ \E id \in AllIds : RemoveNode(id)

SpecRemove == InitSelect /\ [][NextRemove]_vars

(***************************************************************************)
(* SpecSnap: one node, with or without a snap grid, under setPosition with *)
(* given and with its own coordinates, setSize and addPort.                *)
(***************************************************************************)
InitSnap ==
  \E o \in SnapConfigs : InState(addNode(NewEditor(1), o), Call("addNode", 1), HistOff)

NextSnap ==
  \/ \E pos \in SnapPositions : SetPosition(1, pos)
  \/ SetPositionOwn(1)
  \/ \E size \in GeomSizes : SetSize(1, size)
  \/ \E port \in PortChoices : AddPort(1, port)

SpecSnap == InitSnap /\ [][NextSnap]_vars

(***************************************************************************)
(* SpecBend: an orthogonal link from A's port to B's port or to a free     *)
(* point, under moves and resizes of B, reconnects and bend-handle drags.  *)
(***************************************************************************)
NextBend ==
  \/ /\ Len(edges) < MaxGeomLinks
     /\ \E target \in {PortRef(2, 1)} \cup FreePoints :
          AddLink(PortRef(1, 1), target, "orthogonal")
  \/ \E pos \in GeomPositions : SetPosition(2, pos)
  \/ \E size \in GeomSizes : SetSize(2, size)
  \/ \E e \in 1..Len(edges) : ReconnectRequest(e)
  \/ \E e \in 1..Len(edges) : BendPointerDown(e)
  \/ \E pt \in BendPoints : PointerMove(pt)
  \/ \E end \in ReleasePoints : PointerUp(end)

SpecBend == InitSelect /\ [][NextBend]_vars

(***************************************************************************)
(* SpecDrop: B and A on a new editor; A is dragged by its body, and moved  *)
(* and resized by setPosition and setSize calls.                           *)
(***************************************************************************)
InitDrop ==
  InState(addNode(addNode(NewEditor(1), CfgB), CfgA), Call("addNode", 2), HistOff)

NextDrop ==
  \/ \E pt \in GrabPoints : NodePointerDown(2, pt)
  \/ \E pt \in DropPoints : PointerMove(pt)
  \/ \E end \in ReleasePoints : PointerUp(end)
  \/ \E pos \in DropPositions : SetPosition(2, pos)
  \/ \E size \in DropSizes : SetSize(2, size)

SpecDrop == InitDrop /\ [][NextDrop]_vars

(***************************************************************************)
(* SpecExport: exportJSON on the nodes A and B, with links between ports   *)
(* and to a free point, B moved, A selected.                               *)
(***************************************************************************)
NextExport ==
  \/ \E source \in PortEndpoints : \E target \in Endpoints \ {source} :
       AddLink(source, target, "curved")
  \/ \E e \in 1..Len(edges) : RemoveLink(e)
  \/ \E pos \in HitPositions : SetPosition(2, pos)
  \/ /\ selectedNodes = <<>>
     /\ SelectNode(1, FALSE)
  \/ ExportJSON

SpecExport == InitSelect /\ [][NextExport]_vars

(***************************************************************************)
(* SpecLinks: the calls that add, remove or reconnect links, on the nodes  *)
(* and the link that load(DocAB) makes.                                    *)
(***************************************************************************)
NextLinks ==
  \/ Load(1)
  \/ \E target \in {PortRef(2, 1)} \cup FreePoints :
       /\ Len(shapes) >= 2
       /\ AddLink(PortRef(1, 1), target, "curved")
  \/ \E e \in 1..Len(edges) : RemoveLink(e)
  \/ \E id \in AllIds : RemoveNode(id)
  \/ Undo
  \/ Redo
  \/ \E h \in 1..Len(shapes) : PortPointerDown(h, 1)
  \/ \E e \in 1..Len(edges) : ReconnectRequest(e)
  \/ \E end \in ReleasePoints : PointerUp(end)

SpecLinks == Init /\ [][NextLinks]_vars

(***************************************************************************)
(* SpecSlides: a new presentation under addSlide, removeSlide, goTo, next, *)
(* prev, the arrow keys, and the callbacks of the transitions.             *)
(***************************************************************************)
SlideIndices == -1..MaxSlides
SlideKeys == {"ArrowRight", "ArrowLeft", "PageDown", "PageUp", "Enter"}

NextSlides ==
  \/ AddSlide
  \/ \E index \in SlideIndices : RemoveSlide(index)
  \/ \E index \in SlideIndices : GoTo(index)
  \/ NextSlide
  \/ PrevSlide
  \/ \E key \in SlideKeys : SlideKeyDown(key)
  \/ TimerFires
  \/ FrameFires

SpecSlides == Init /\ [][NextSlides]_vars

(***************************************************************************)
(* SpecIndex: the calls that read or move activeIndex, with indices from   *)
(* one below to one above the range of the slides.                         *)
(***************************************************************************)
NextIndex ==
  \/ AddSlide
  \/ \E index \in -1..Len(slides) : RemoveSlide(index)
  \/ \E index \in -1..Len(slides) : GoTo(index)
  \/ NextSlide
  \/ PrevSlide
  \/ TimerFires
  \/ FrameFires

SpecIndex == Init /\ [][NextIndex]_vars

(***************************************************************************)
(* SpecTimers: a presentation of MaxSlides slides, the first one active,   *)
(* under goTo, next, prev and the callbacks of the transitions.            *)
(***************************************************************************)
RECURSIVE Deck(_)
Deck(n) == IF n = 0 THEN NewPresentation ELSE addSlide(Deck(n - 1))

InitTimers ==
  /\ EditorState(NewEditor(1), Call("new", 0), HistOff)
  /\ PresentationState([Deck(MaxSlides) EXCEPT !.events = <<>>], Call("addSlide", 0))

NextTimers ==
  \/ \E index \in SlideIndices : GoTo(index)
  \/ NextSlide
  \/ PrevSlide
  \/ TimerFires
  \/ FrameFires

SpecTimers == InitTimers /\ [][NextTimers]_vars

(***************************************************************************)
(* Properties.                                                             *)
(***************************************************************************)
\* an effective structural call produced this state (removeNode of a node in
\* the map, removeLink of a tracked link, any addNode or addLink)
StructuralCall ==
  \/ lastCall.op \in {"addNode", "addLink"}
  \/ lastCall.op \in {"removeNode", "removeLink"} /\ lastCall.arg # 0

\* C1: after a run of n structural calls (addNode, addLink, removeNode,
\* removeLink) followed by n undo() calls, the set of node ids and the set of
\* links are the ones that held before the first of these n calls.
C1_UndoInverse ==
  (hist.phase = "undo" /\ hist.undone >= 1) =>
    Snapshot(Cur) = hist.run[Len(hist.run) - hist.undone + 1]

\* C2: after n structural calls, n undo() calls and n redo() calls, the set of
\* node ids and the set of links are the ones that held right after the last
\* structural call.
C2_RedoRestores ==
  (hist.phase = "redo" /\ hist.redone = hist.undone) => Snapshot(Cur) = hist.post

\* C3: after every structural call (addNode, addLink, removeNode, removeLink)
\* the redo stack is empty, also when undo() calls came before it.
C3_HistoryTruncation == StructuralCall => redoStack = <<>>

\* the link e has an endpoint on a port of the shape h
References(e, h) ==
  \/ edges[e].source.kind = "port" /\ edges[e].source.node = h
  \/ edges[e].target.kind = "port" /\ edges[e].target.node = h

\* C4: removeNode(id) of a node in the map takes out of the link set exactly
\* the links with an endpoint on that node, keeps every other link, and takes
\* the node, and no other, out of the node map.
C4_CascadeDeletion ==
  [][\A id \in MapKeys(nodes) :
       RemoveNode(id) =>
         /\ Range(links') = {e \in Range(links) : ~References(e, MapGet(nodes, id))}
         /\ links' = SelectSeq(links, LAMBDA e : ~References(e, MapGet(nodes, id)))
         /\ nodes' = SelectSeq(nodes, LAMBDA n : n.id # id)]_vars

\* removeNode has just removed a node; a link that had an endpoint on it is out
\* of the link set and another link is still tracked
C4_Witness ==
  /\ lastCall.op = "removeNode"
  /\ lastCall.arg # 0
  /\ ~shapes[lastCall.arg].inDom
  /\ \E e \in 1..Len(edges) : References(e, lastCall.arg) /\ e \notin Range(links)
  /\ \E e \in Range(links) : ~References(e, lastCall.arg)

\* C5: every endpoint of a tracked link that is on a node is on a node that the
\* node map holds.
C5_ReferentialIntegrity ==
  \A e \in Range(links) :
    /\ edges[e].source.kind = "port" => edges[e].source.node \in MapValues(nodes)
    /\ edges[e].target.kind = "port" => edges[e].target.node \in MapValues(nodes)

\* the coordinate of a port by its side and offset (in percent) on a shape
DerivedX(sh, port) ==
  CASE port.side = "left" -> sh.x
    [] port.side = "right" -> sh.x + sh.width
    [] port.side \in {"top", "bottom"} -> sh.x + (sh.width * port.offset) \div 100
DerivedY(sh, port) ==
  CASE port.side = "top" -> sh.y
    [] port.side = "bottom" -> sh.y + sh.height
    [] port.side \in {"left", "right"} -> sh.y + (sh.height * port.offset) \div 100

\* C6: after any setPosition, setSize and addPort calls every port's stored
\* coordinate is the one derived from the shape's current x, y, width, height
\* and the port's side and offset.
C6_PortCoherence ==
  \A h \in 1..Len(shapes) : \A p \in 1..Len(shapes[h].ports) :
    /\ shapes[h].ports[p].cx = DerivedX(shapes[h], shapes[h].ports[p])
    /\ shapes[h].ports[p].cy = DerivedY(shapes[h], shapes[h].ports[p])

\* A, moved to (300,200) after a resize to 200 x 100 and an addPort: its right
\* port at 0.5 is at (500,250)
C6_Witness ==
  /\ lastCall.op = "setPosition"
  /\ shapes[1].x = 300 /\ shapes[1].y = 200
  /\ shapes[1].width = 200 /\ shapes[1].height = 100
  /\ Len(shapes[1].ports) = 2
  /\ shapes[1].ports[1].side = "right"
  /\ shapes[1].ports[1].cx = 500 /\ shapes[1].ports[1].cy = 250

\* the path of a link of the given type between the points a and b
PathBetween(edge, a, b) ==
  CASE edge.type = "straight" -> [cmd |-> "ML", pts |-> <<a.x, a.y, b.x, b.y>>]
    [] edge.type = "orthogonal" ->
         [cmd |-> "MLLL", pts |-> <<a.x, a.y, edge.bend.x, a.y,
                                    edge.bend.x, b.y, b.x, b.y>>]
    [] edge.type = "curved" ->
         LET c == Max(Abs(b.x - a.x), Abs(b.y - a.y)) \div 4
         IN [cmd |-> "MC", pts |-> <<a.x, a.y, a.x + c, a.y, b.x - c, b.y, b.x, b.y>>]
PortAt(ep) ==
  [x |-> shapes[ep.node].ports[ep.port].cx, y |-> shapes[ep.node].ports[ep.port].cy]

\* C7: the path of every tracked link between two ports is the one built from
\* the two ports' current coordinates, after every setPosition and setSize of
\* an attached node.
C7_EdgeFreshness ==
  \A e \in Range(links) :
    (edges[e].source.kind = "port" /\ edges[e].target.kind = "port") =>
      edges[e].path = PathBetween(edges[e], PortAt(edges[e].source),
                                  PortAt(edges[e].target))

\* the straight link from A's right port to B's left port runs from (100,50)
\* to (300,250) right after B was moved to (300,200)
C7_Witness ==
  /\ lastCall = Call("setPosition", 2)
  /\ shapes[2].x = 300 /\ shapes[2].y = 200
  /\ \E e \in Range(links) :
       /\ edges[e].type = "straight"
       /\ edges[e].source = PortRef(1, 1) /\ edges[e].target = PortRef(2, 1)
       /\ edges[e].path.pts = <<100, 50, 300, 250>>

\* load(exportJSON()) into a new editor, made when the editor is in state s
Reloaded(s) == load(NewEditor(s.uid), exportJSON(s))

\* C8: exportJSON() of a new editor that loaded exportJSON() of this editor has
\* the same nodes array (ids, x, y, width, height, label, and the ports with
\* their id, side and offset, in order).
C8_NodeRoundTrip == exportJSON(Reloaded(Cur)).nodes = exportJSON(Cur).nodes

\* C9: a new editor that loaded exportJSON() of this editor has one link for
\* every exported link whose source and target ids are both among the
\* exported nodes, with the same (source id, target id) pair, and no other.
C9_LinkRoundTrip ==
  LET data == exportJSON(Cur)
      ids == {data.nodes[i].id : i \in 1..Len(data.nodes)}
  IN exportJSON(Reloaded(Cur)).links =
       SelectSeq(data.links, LAMBDA l : l.source \in ids /\ l.target \in ids)

\* C10 as claimed: load(data) makes a shape for every node entry, keeps every
\* entry's id in the node map, and adds one link for every link entry whose
\* source and target ids are both in the node map.
C10_LoadEveryResolvableLink ==
  [][\A d \in 1..Len(Docs) :
       Load(d) =>
         /\ Len(shapes') = Len(shapes) + Len(Docs[d].nodes)
         /\ \A i \in 1..Len(Docs[d].nodes) : MapHas(nodes', Docs[d].nodes[i].id)
         /\ Len(links') = Len(links) +
              Len(SelectSeq(Docs[d].links,
                            LAMBDA l : MapHas(nodes', l.source) /\ MapHas(nodes', l.target)))
    ]_vars

\* the link entry l joins two nodes of the map m that have a port each
Attachable(m, heap, l) ==
  /\ MapHas(m, l.source) /\ heap[MapGet(m, l.source)].ports # <<>>
  /\ MapHas(m, l.target) /\ heap[MapGet(m, l.target)].ports # <<>>

\* C10, amended: load(data) makes a shape for every node entry, keeps every
\* entry's id in the node map, and adds, in order, one link for every link
\* entry whose source and target ids are both in the node map and whose two
\* nodes both have a port, from the first port of the one to the first port of
\* the other; every other link entry is skipped.
C10_LoadSkipsUnattachable ==
  [][\A d \in 1..Len(Docs) :
       Load(d) =>
         LET made == SelectSeq(Docs[d].links, LAMBDA l : Attachable(nodes', shapes', l))
         IN /\ Len(shapes') = Len(shapes) + Len(Docs[d].nodes)
            /\ \A i \in 1..Len(Docs[d].nodes) : MapHas(nodes', Docs[d].nodes[i].id)
            /\ Len(links') = Len(links) + Len(made)
            /\ SubSeq(links', 1, Len(links)) = links
            /\ \A i \in 1..Len(made) :
                 LET e == links'[Len(links) + i] IN
                 /\ e > Len(edges)
                 /\ edges'[e].source = PortRef(MapGet(nodes', made[i].source), 1)
                 /\ edges'[e].target = PortRef(MapGet(nodes', made[i].target), 1)
    ]_vars

\* load(DocAB) has just run: both nodes are in the map, the one link between
\* them is tracked, the entries with a null or unknown id made no link
C10_Witness ==
  /\ lastCall = Call("load", 1)
  /\ MapKeys(nodes) = {CallerId(1), CallerId(2)}
  /\ Len(links) = 1
  /\ edges[links[1]].source = PortRef(MapGet(nodes, CallerId(1)), 1)
  /\ edges[links[1]].target = PortRef(MapGet(nodes, CallerId(2)), 1)

\* C11: selectNode(n) / selectLink(e) without append makes the selection set
\* {n} / {e}, with append the set before plus the target, and with a null
\* target the empty set, whatever the append flag.
C11_SelectionSemantics ==
  [][
      /\ \A node \in 0..Len(shapes) : \A append \in BOOLEAN :
          SelectNode(node, append) =>
            Range(selectedNodes') =
              IF node = 0 THEN {}
              ELSE IF append THEN Range(selectedNodes) \cup {node} ELSE {node}
      /\ \A edge \in 0..Len(edges) : \A append \in BOOLEAN :
          SelectLink(edge, append) =>
            Range(selectedLinks') =
              IF edge = 0 THEN {}
              ELSE IF append THEN Range(selectedLinks) \cup {edge} ELSE {edge}
    ]_vars

\* C12: a call of selectNode or selectLink, with any target and append flag,
\* leaves the node map, the link set, the undo stack and the redo stack as
\* they were and emits one signal, node:select respectively link:select.
C12_SelectionObservational ==
  [][
      /\ \A node \in 0..Len(shapes) : \A append \in BOOLEAN :
          SelectNode(node, append) =>
            /\ UNCHANGED <<nodes, links, undoStack, redoStack, shapes, edges>>
            /\ Len(events') = 1 /\ events'[1].name = "node:select"
      /\ \A edge \in 0..Len(edges) : \A append \in BOOLEAN :
          SelectLink(edge, append) =>
            /\ UNCHANGED <<nodes, links, undoStack, redoStack, shapes, edges>>
            /\ Len(events') = 1 /\ events'[1].name = "link:select"
    ]_vars

\* selectLink(null) has just run on an editor with nodes, a link and history
C12_Witness ==
  /\ lastCall = Call("selectLink", 0)
  /\ Len(events) = 1 /\ events[1].name = "link:select"
  /\ nodes # <<>> /\ links # <<>> /\ undoStack # <<>>
  /\ selectedNodes # <<>>

\* the bounding boxes of the shapes a and b overlap
BoxesOverlap(a, b) ==
  /\ a.x < b.x + b.width /\ b.x < a.x + a.width
  /\ a.y < b.y + b.height /\ b.y < a.y + a.height

\* C13: when the drag of a node ends while its bounding box overlaps that of
\* another node of the node map, the node is afterwards at the position it had
\* when the drag started, whatever its configuration (snap grid included).
C13_CollisionRevert ==
  [][\A end \in ReleasePoints :
       PointerUp(end) =>
         \A i \in 1..Len(win) :
           (/\ win[i].kind = "drag"
            /\ \E other \in MapValues(nodes) \ {win[i].src.node} :
                 BoxesOverlap(shapes[win[i].src.node], shapes[other]))
           => /\ shapes'[win[i].src.node].x = win[i].from.x
              /\ shapes'[win[i].src.node].y = win[i].from.y
    ]_vars

\* C14: when a lasso is released with rectangle R, the node selection set is
\* afterwards the set of the nodes of the node map whose bounding box lies
\* inside R (x >= R.x, y >= R.y, x + width <= R.x + R.width, y + height <=
\* R.y + R.height); a node that only intersects R, or that was selected
\* before, is not in it.
C14_LassoContainment ==
  [][\A end \in ReleasePoints :
       (PointerUp(end) /\ lasso.on /\ \E i \in 1..Len(win) : win[i].kind = "lasso")
       => Range(selectedNodes') =
            {h \in MapValues(nodes) :
               /\ shapes[h].x >= lasso.x
               /\ shapes[h].y >= lasso.y
               /\ shapes[h].x + shapes[h].width <= lasso.x + lasso.width
               /\ shapes[h].y + shapes[h].height <= lasso.y + lasso.height}
    ]_vars

\* a lasso over A that reached into B was just released, B having been
\* selected by a selectNode call during the gesture: A alone is selected
C14_Witness ==
  /\ lastCall.op = "pointerup"
  /\ ~lasso.on
  /\ Len(events) = 1 /\ events[1].name = "node:select"
  /\ selectedNodes = <<1>>
  /\ selected = 2

\* C15: after every pointer move of a pan gesture the viewBox origin is the
\* origin at the start of the gesture minus the displacement of the pointer
\* since the pointer-down, and the viewBox width and height are those at the
\* start of the gesture.
C15_Pan ==
  [][\A pt \in PanPoints :
       (PointerMove(pt) /\ Len(win) = 1 /\ win[1].kind = "pan")
       => /\ viewBox'.x = win[1].from.x - (pt.x - win[1].at.x) * Milli
          /\ viewBox'.y = win[1].from.y - (pt.y - win[1].at.y) * Milli
          /\ viewBox'.w = win[1].from.w
          /\ viewBox'.h = win[1].from.h
    ]_vars

\* the fraction n / d (d > 0) in lowest terms
RECURSIVE Gcd(_, _)
Gcd(a, b) == IF b = 0 THEN a ELSE Gcd(b, a % b)
Fraction(n, d) ==
  LET g == Gcd(IF n >= 0 THEN n ELSE 0 - n, d) IN <<n \div g, d \div g>>

\* C16: a wheel zoom with factor s (0.9 in, 1.1 out) at the document point p
\* takes the viewBox (x, y, w, h) to (p.x - (p.x - x) s, p.y - (p.y - y) s,
\* w s, h s): p keeps its fraction of the viewBox and w / h is unchanged.
C16_ZoomAnchor ==
  [][\A pt \in WheelPoints : \A scale \in {ScaleIn, ScaleOut} :
       Wheel(pt, scale) =>
         LET px == pt.x * Milli
             py == pt.y * Milli
         IN /\ ScaleDen * viewBox'.x = ScaleDen * px - (px - viewBox.x) * scale
            /\ ScaleDen * viewBox'.y = ScaleDen * py - (py - viewBox.y) * scale
            /\ ScaleDen * viewBox'.w = viewBox.w * scale
            /\ ScaleDen * viewBox'.h = viewBox.h * scale
            /\ Fraction(px - viewBox'.x, viewBox'.w) = Fraction(px - viewBox.x, viewBox.w)
            /\ Fraction(py - viewBox'.y, viewBox'.h) = Fraction(py - viewBox.y, viewBox.h)
            /\ Fraction(viewBox'.w, viewBox'.h) = Fraction(viewBox.w, viewBox.h)
    ]_vars

\* the viewBox (0,0,800,600), zoomed in at (400,300), is (40,30,720,540)
C16_Witness ==
  /\ lastCall = Call("wheel", ScaleIn)
  /\ viewBox = [x |-> 40 * Milli, y |-> 30 * Milli, w |-> 720 * Milli, h |-> 540 * Milli]

\* the ports of the nodes of the map, but for the node ex, within the radius
\* of pt, as <<place of the node in the map, place of the port in the node>>
Qualifying(pt, ex) ==
  {q \in (1..Len(nodes)) \X (1..MaxPorts + 1) :
     /\ nodes[q[1]].h # ex
     /\ q[2] <= Len(shapes[nodes[q[1]].h].ports)
     /\ LET port == shapes[nodes[q[1]].h].ports[q[2]]
        IN (pt.x - port.cx) * (pt.x - port.cx) + (pt.y - port.cy) * (pt.y - port.cy)
             < HitThreshold * HitThreshold}

\* C17: the hit-test for a point and an excluded node returns the first port,
\* in node-insertion order and then port order within the node, whose current
\* coordinate is within 12 units of the point; never a port of the excluded
\* node; null when no port qualifies; not a nearer port that comes later.
C17_PortHitTest ==
  \A pt \in HitPoints : \A ex \in 0..Len(shapes) :
    LET hit == hitTestPort(Cur, pt, ex)
        Q == Qualifying(pt, ex)
    IN IF Q = {} THEN hit = NoHit
       ELSE /\ hit.node # ex
            /\ \E q \in Q :
                 /\ hit = [node |-> nodes[q[1]].h, port |-> q[2]]
                 /\ \A r \in Q : q[1] < r[1] \/ (q[1] = r[1] /\ q[2] <= r[2])

\* a port drag from A was just released at (300,54): the link goes to B's
\* first port at (300,50), though B's second port at (300,55) is nearer
C17_Witness ==
  /\ lastCall.op = "pointerup"
  /\ Len(shapes[2].ports) = 2
  /\ shapes[2].ports[1].cx = 300 /\ shapes[2].ports[1].cy = 50
  /\ shapes[2].ports[2].cx = 300 /\ shapes[2].ports[2].cy = 55
  /\ links # <<>>
  /\ edges[links[Len(links)]].source = PortRef(1, 1)
  /\ edges[links[Len(links)]].target = PortRef(2, 1)
  /\ hitTestPort(Cur, [x |-> 300, y |-> 54], 1) = [node |-> 2, port |-> 1]

\* what a signal is about: its name, or the type of a diagram:changed payload
Topic(ev) == IF ev.name = "diagram:changed" THEN ev.type ELSE ev.name

\* C18: when a listener receives node:add, node:remove, link:add, link:remove
\* or the diagram:changed that goes with it, the node map and the link set
\* already hold the added entity, no longer hold the removed one, and the
\* store state is the node map's values and the link set.
C18_MutationBeforeNotification ==
  \A i \in 1..Len(events) :
    LET ev == events[i] IN
    Topic(ev) \in {"node:add", "node:remove", "link:add", "link:remove"} =>
      /\ Topic(ev) = "node:add" => ev.subject \in Range(ev.seen.nodes)
      /\ Topic(ev) = "node:remove" => ev.subject \notin Range(ev.seen.nodes)
      /\ Topic(ev) = "link:add" => ev.subject \in Range(ev.seen.links)
      /\ Topic(ev) = "link:remove" => ev.subject \notin Range(ev.seen.links)
      /\ ev.seen.store.nodes = ev.seen.nodes
      /\ ev.seen.store.links = ev.seen.links

\* removeNode of a node with a link has just run: link:remove was received
\* while the node was still in the map, node:remove once it was out
C18_Witness ==
  /\ lastCall.op = "removeNode"
  /\ Len(events) >= 4
  /\ events[1].name = "link:remove"
  /\ events[Len(events) - 1].name = "node:remove"
  /\ events[Len(events) - 1].subject \in Range(events[1].seen.nodes)
  /\ events[Len(events) - 1].subject \notin Range(events[Len(events)].seen.store.nodes)

\* C19: undo() on an empty undo stack and redo() on an empty redo stack change
\* neither the node map, the link set nor the stacks, and emit no signal.
C19_EmptyHistoryNoop ==
  [][((Undo /\ undoStack = <<>>) \/ (Redo /\ redoStack = <<>>)) =>
       /\ UNCHANGED <<shapes, edges, nodes, links, lmEdges, undoStack, redoStack, store>>
       /\ events' = <<>>
    ]_vars

\* redo() has just run on an empty redo stack, with a node, a link and history
C19_Witness ==
  /\ lastCall.op = "redo"
  /\ events = <<>>
  /\ redoStack = <<>>
  /\ nodes # <<>> /\ links # <<>> /\ undoStack # <<>>

\* C20: removeNode(id) with an id that is not in the node map and
\* removeLink(edge) with an edge that is not in the link set change neither
\* the node map, the link set, the selection nor the stacks, and emit no
\* signal; so a second removal of a node or link emits nothing.
C20_UnknownRemovalNoop ==
  [][
      /\ \A id \in AllIds \cup {CallerId(9)} :
           (RemoveNode(id) /\ ~MapHas(nodes, id)) =>
             /\ UNCHANGED <<shapes, edges, nodes, links, lmEdges, undoStack, redoStack,
                            store, selectedNodes, selectedLinks, selected>>
             /\ events' = <<>>
      /\ \A e \in 1..Len(edges) :
           (RemoveLink(e) /\ e \notin Range(links)) =>
             /\ UNCHANGED <<shapes, edges, nodes, links, lmEdges, undoStack, redoStack,
                            store, selectedNodes, selectedLinks, selected>>
             /\ events' = <<>>
    ]_vars

\* a link that was removed before has just been removed again, some node
\* being selected: nothing was emitted
C20_Witness ==
  /\ lastCall = Call("removeLink", 0)
  /\ events = <<>>
  /\ \E e \in 1..Len(edges) : ~edges[e].inDom
  /\ selectedNodes # <<>>
  /\ nodes # <<>>

\* C21: on a link made by addLink with default options, a plain click selects
\* the link and leaves it in the link set; a shift-click starts a reconnect of
\* the link and neither selects nor removes it; a double click removes it.
C21_LinkClickSignals ==
  [][\A e \in Range(links) :
       /\ LinkClick(e, FALSE) =>
            /\ e \in Range(links')
            /\ selectedLinks' = <<e>>
       /\ LinkClick(e, TRUE) =>
            /\ e \in Range(links')
            /\ selectedLinks' = selectedLinks
            /\ \E i \in 1..Len(win') : win'[i].kind = "reconnect" /\ win'[i].edge = e
       /\ LinkDblClick(e) => e \notin Range(links')
    ]_vars

\* C22: the shapes that were made and not removed have distinct ids, and each
\* of them is the value the node map holds under its id, after any addNode
\* (with or without an id of the caller), load and removeNode calls.
C22_UniqueNodeKeys ==
  /\ \A h \in 1..Len(shapes) : shapes[h].inDom => MapGet(nodes, shapes[h].id) = h
  /\ \A g, h \in 1..Len(shapes) :
       (shapes[g].inDom /\ shapes[h].inDom /\ g # h) => shapes[g].id # shapes[h].id

\* C23: every shape has width >= minWidth and height >= minHeight, right
\* after it was made from any configuration and after any setSize calls and
\* resize gestures.
C23_MinimumSize ==
  \A h \in 1..Len(shapes) :
    /\ shapes[h].width >= shapes[h].minWidth
    /\ shapes[h].height >= shapes[h].minHeight

\* the signals named name among the signals of the last call
Count(log, name) == Cardinality({i \in 1..Len(log) : log[i].name = name})
\* the listeners of the gestures of the given kind
Installed(listeners, kind) ==
  Cardinality({i \in 1..Len(listeners) : listeners[i].kind = kind})

\* C24: a pointerdown that starts a drag, resize, bend, lasso, pan or port
\* drag installs the listeners of one gesture; the pointer-up removes every
\* listener of the gestures in flight, emitting one dragend for each drag and
\* one resizeend for each resize that had started; and a pointer move after
\* the pointer-up, or with no gesture in flight, changes no position, size,
\* bend, path, lasso or viewBox.
C24_GestureLifecycle ==
  [][
      /\ \A pt \in GrabPoints :
           NodePointerDown(1, pt) =>
             /\ Len(win') = Len(win) + 1 /\ win'[Len(win')].kind = "drag"
             /\ Count(events', "dragstart") = 1 /\ Count(events', "dragend") = 0
      /\ \A pt \in ResizeGrabs :
           ResizePointerDown(1, pt) =>
             /\ Len(win') = Len(win) + 1 /\ win'[Len(win')].kind = "resize"
             /\ Count(events', "resizestart") = 1 /\ Count(events', "resizeend") = 0
      /\ \A end \in GestureEnds :
           PointerUp(end) =>
             /\ win' = <<>>
             /\ Count(events', "dragend") = Installed(win, "drag")
             /\ Count(events', "resizeend") = Installed(win, "resize")
             /\ Count(events', "dragstart") = 0 /\ Count(events', "resizestart") = 0
      /\ \A pt \in GesturePoints :
           (WindowPointerMove(pt) /\ (win = <<>> \/ lastCall.op = "pointerup")) =>
             UNCHANGED <<shapes, edges, viewBox, lasso, selectedNodes, links>>
    ]_vars

\* a pointer move has just come with no gesture in flight, after a drag, a
\* resize, a bend and a pan that each moved something
C24_Witness ==
  /\ lastCall.op = "pointermove"
  /\ win = <<>>
  /\ events = <<>>
  /\ shapes[1].x # 0
  /\ shapes[1].width # 100
  /\ edges[1].bend = [set |-> TRUE, x |-> 1100, y |-> 1100]
  /\ viewBox.x # 0

\* C25: an undo() on a non-empty undo stack moves its top record, and no
\* other, onto the redo stack; a redo() on a non-empty redo stack moves its
\* top record onto the undo stack; so the number of records stays and a redo
\* right after an undo gives both stacks back; each emits one history:undo
\* respectively history:redo signal, the last signal of the call, carrying
\* the moved record.
C25_HistoryConservation ==
  [][
      /\ (Undo /\ undoStack # <<>>) =>
           /\ undoStack' = SubSeq(undoStack, 1, Len(undoStack) - 1)
           /\ redoStack' = Append(redoStack, undoStack[Len(undoStack)])
           /\ Len(undoStack') + Len(redoStack') = Len(undoStack) + Len(redoStack)
           /\ Count(events', "history:undo") = 1 /\ Count(events', "history:redo") = 0
           /\ events'[Len(events')].name = "history:undo"
           /\ events'[Len(events')].payload = undoStack[Len(undoStack)]
      /\ (Redo /\ redoStack # <<>>) =>
           /\ redoStack' = SubSeq(redoStack, 1, Len(redoStack) - 1)
           /\ undoStack' = Append(undoStack, redoStack[Len(redoStack)])
           /\ Len(undoStack') + Len(redoStack') = Len(undoStack) + Len(redoStack)
           /\ Count(events', "history:redo") = 1 /\ Count(events', "history:undo") = 0
           /\ events'[Len(events')].name = "history:redo"
           /\ events'[Len(events')].payload = redoStack[Len(redoStack)]
      /\ (Redo /\ lastCall.op = "undo" /\ events # <<>>) =>
           /\ undoStack' = Append(undoStack, redoStack[Len(redoStack)])
           /\ redoStack' = SubSeq(redoStack, 1, Len(redoStack) - 1)
    ]_vars

\* redo() has just moved a record back, another record being still on the
\* redo stack and one on the undo stack below the moved one
C25_Witness ==
  /\ lastCall.op = "redo"
  /\ Len(events) = 1 /\ events[1].name = "history:redo"
  /\ Len(undoStack) >= 2
  /\ redoStack # <<>>
  /\ events[1].payload = undoStack[Len(undoStack)]

\* C26: removeNode on a node of the map with N attached links emits N
\* link:remove signals, one for each attached link, then one node:remove
\* signal for the node, and no link:remove after it.
C26_CascadeSignalOrder ==
  [][\A id \in MapKeys(nodes) :
       RemoveNode(id) =>
         LET h == MapGet(nodes, id)
             attached == {e \in Range(links) : References(e, h)}
             at(name) == {i \in 1..Len(events') : events'[i].name = name}
         IN /\ Cardinality(at("link:remove")) = Cardinality(attached)
            /\ {events'[i].subject : i \in at("link:remove")} = attached
            /\ Cardinality(at("node:remove")) = 1
            /\ \A j \in at("node:remove") :
                 /\ events'[j].subject = h
                 /\ \A i \in at("link:remove") : i < j
    ]_vars

\* removeNode has just removed a node with two links: two link:remove
\* signals, for different links, and then node:remove
C26_Witness ==
  /\ lastCall.op = "removeNode"
  /\ Count(events, "link:remove") = 2
  /\ Count(events, "node:remove") = 1
  /\ Len(events) = 6
  /\ events[1].name = "link:remove" /\ events[3].name = "link:remove"
  /\ events[1].subject # events[3].subject
  /\ events[5].name = "node:remove"

\* the signals named name of the last call that carry the bounds of shape h
Carrying(log, name, h) ==
  {i \in 1..Len(log) :
     /\ log[i].name = name
     /\ log[i].subject = h
     /\ log[i].payload = [id |-> shapes[h].id, x |-> shapes[h].x, y |-> shapes[h].y,
                          width |-> shapes[h].width, height |-> shapes[h].height]}

\* C27 as claimed: after setSize(w, h), for every input and every configured
\* minimum, minWidth <= width <= 2000 and minHeight <= height <= 2000, and one
\* resize signal carrying the new bounds was emitted.
C27_SetSizeWithinBounds ==
  (lastCall = Call("setSize", 1)) =>
    /\ shapes[1].minWidth <= shapes[1].width /\ shapes[1].width <= MaxSize
    /\ shapes[1].minHeight <= shapes[1].height /\ shapes[1].height <= MaxSize
    /\ Count(events, "resize") = 1
    /\ Cardinality(Carrying(events, "resize", 1)) = 1

\* v capped at hi, then raised to lo
Bounded(v, lo, hi) ==
  LET capped == IF v > hi THEN hi ELSE v IN IF capped < lo THEN lo ELSE capped

\* C27, amended: setSize(w, h), called or run by a move of a resize gesture,
\* sets width to w capped at 2000 and then raised to minWidth, and height
\* alike, for every input and every configured minimum: width >= minWidth
\* always, width <= 2000 when minWidth <= 2000, and width = minWidth when
\* minWidth > 2000; it emits one resize signal carrying the new bounds.
C27_SetSizeClamp ==
  [][
      /\ \A size \in ResizeSizes :
           SetSize(1, size) =>
             /\ shapes'[1].width = Bounded(size.w, shapes[1].minWidth, MaxSize)
             /\ shapes'[1].height = Bounded(size.h, shapes[1].minHeight, MaxSize)
      /\ \A pt \in ResizePoints :
           (PointerMove(pt) /\ Len(win) = 1 /\ win[1].kind = "resize") =>
             /\ shapes'[1].width =
                  Bounded(win[1].from.w + (pt.x - win[1].at.x), shapes[1].minWidth, MaxSize)
             /\ shapes'[1].height =
                  Bounded(win[1].from.h + (pt.y - win[1].at.y), shapes[1].minHeight, MaxSize)
      /\ (lastCall'.op = "setSize"
          \/ (lastCall'.op = "pointermove" /\ Len(win) = 1 /\ win[1].kind = "resize")) =>
           /\ shapes'[1].width >= shapes'[1].minWidth
           /\ shapes'[1].height >= shapes'[1].minHeight
           /\ shapes'[1].minWidth <= MaxSize => shapes'[1].width <= MaxSize
           /\ shapes'[1].minHeight <= MaxSize => shapes'[1].height <= MaxSize
           /\ shapes'[1].minWidth > MaxSize => shapes'[1].width = shapes'[1].minWidth
           /\ Count(events', "resize") = 1
           /\ \E i \in 1..Len(events') :
                /\ events'[i].name = "resize"
                /\ events'[i].payload = [id |-> shapes'[1].id,
                                         x |-> shapes'[1].x, y |-> shapes'[1].y,
                                         width |-> shapes'[1].width,
                                         height |-> shapes'[1].height]
    ]_vars

\* setSize(40, 3000) has just run on W, whose minimum width is 2400: the
\* width is 2400 and the height 2000, and the resize signal carries them
C27_Witness ==
  /\ lastCall = Call("setSize", 1)
  /\ shapes[1].minWidth = 2400
  /\ shapes[1].width = 2400 /\ shapes[1].height = MaxSize
  /\ Cardinality(Carrying(events, "resize", 1)) = 1
  /\ events[1].payload.width = 2400 /\ events[1].payload.height = MaxSize

\* v is the multiple of the step s (> 0) nearest to u, the upper one of two
OnGrid(v, u, s) == v % s = 0 /\ 2 * (v - u) <= s /\ 2 * (u - v) < s

\* C28: setPosition(x, y) puts the shape at (x, y), or with a snap step s > 0
\* at the nearest multiples of s; a second call with the same arguments, and
\* a call with the shape's own coordinates when they are on the grid, leave
\* position, ports and resize handle as they are.
C28_SetPositionIdempotent ==
  [][
      /\ \A pos \in SnapPositions :
           SetPosition(1, pos) =>
             /\ IF shapes[1].snap > 0
                THEN /\ OnGrid(shapes'[1].x, pos.x, shapes[1].snap)
                     /\ OnGrid(shapes'[1].y, pos.y, shapes[1].snap)
                ELSE shapes'[1].x = pos.x /\ shapes'[1].y = pos.y
             /\ (shapes'[1].x = shapes[1].x /\ shapes'[1].y = shapes[1].y)
                  => shapes'[1] = shapes[1]
      /\ (SetPositionOwn(1)
          /\ (shapes[1].snap > 0 =>
                shapes[1].x % shapes[1].snap = 0 /\ shapes[1].y % shapes[1].snap = 0))
           => shapes'[1] = shapes[1]
    ]_vars

\* setPosition with its own coordinates has just run on S, which snaps to 50
\* and was put on the grid at (0,100) by setPosition(-25, 75) after an addPort
C28_Witness ==
  /\ lastCall = Call("setPositionOwn", 1)
  /\ shapes[1].snap = 50
  /\ shapes[1].x = 0 /\ shapes[1].y = 100
  /\ Len(shapes[1].ports) = 2
  /\ shapes[1].handle = [x |-> 0 + shapes[1].width - 10, y |-> 100 + shapes[1].height - 10]

\* what setSize must leave alone: position, id, label, minimums, snap step
\* and the ports' ids, sides and offsets
Frame(sh) ==
  [x |-> sh.x, y |-> sh.y, id |-> sh.id, label |-> sh.labelText,
   minWidth |-> sh.minWidth, minHeight |-> sh.minHeight, snap |-> sh.snap,
   ports |-> [p \in 1..Len(sh.ports) |->
                [id |-> sh.ports[p].id, side |-> sh.ports[p].side,
                 offset |-> sh.ports[p].offset]]]

\* C29: a setSize call and every move of a resize gesture leave the shape's
\* x, y, id, label and ports (their ids, sides and offsets, in order) as they
\* were; width, height, the port coordinates and the handle may change.
C29_ResizeKeepsPosition ==
  [][
      /\ \A size \in ResizeSizes :
           SetSize(1, size) => Frame(shapes'[1]) = Frame(shapes[1])
      /\ \A pt \in ResizePoints :
           (PointerMove(pt) /\ \A i \in 1..Len(win) : win[i].kind = "resize")
             => Frame(shapes'[1]) = Frame(shapes[1])
    ]_vars

\* a resize gesture on V (200 x 150 at (0,0), a bottom port at 0.5) has just
\* moved by (+1000,+1000): V is 1200 x 1150 at (0,0), its port at (600,1150)
C29_Witness ==
  /\ lastCall.op = "pointermove"
  /\ Len(win) = 1 /\ win[1].kind = "resize"
  /\ shapes[1].x = 0 /\ shapes[1].y = 0
  /\ shapes[1].width = 1200 /\ shapes[1].height = 1150
  /\ Len(shapes[1].ports) = 1
  /\ shapes[1].ports[1].cx = 600 /\ shapes[1].ports[1].cy = 1150

\* the point the endpoint ep resolves to in the state after the step
PointAfter(ep) ==
  IF ep.kind = "port"
  THEN [x |-> shapes'[ep.node].ports[ep.port].cx, y |-> shapes'[ep.node].ports[ep.port].cy]
  ELSE [x |-> ep.x, y |-> ep.y]

\* a bend-handle drag of the link e is in flight
Bending(e) == \E i \in 1..Len(win) : win[i].kind = "bend" /\ win[i].edge = e

\* C30: the bend of an orthogonal link is the midpoint of its two endpoints
\* when the link is made; no later update, reconnect, move or resize of an
\* attached node changes it; a move of a bend-handle drag sets it to the
\* pointer; and the path of a tracked link runs start -> (bend.x, start.y) ->
\* (bend.x, end.y) -> end with the endpoints as they are after every step.
C30_BendPersistence ==
  [][\A e \in 1..Len(edges') :
       edges'[e].type = "orthogonal" =>
         LET start == PointAfter(edges'[e].source)
             end == PointAfter(edges'[e].target)
         IN /\ e > Len(edges) =>
                 edges'[e].bend = [set |-> TRUE, x |-> (start.x + end.x) \div 2,
                                   y |-> (start.y + end.y) \div 2]
            /\ (e <= Len(edges) /\ ~(lastCall'.op = "pointermove" /\ Bending(e))) =>
                 edges'[e].bend = edges[e].bend
            /\ (e <= Len(edges) /\ Bending(e)) =>
                 \A pt \in BendPoints :
                   PointerMove(pt) => edges'[e].bend = [set |-> TRUE, x |-> pt.x, y |-> pt.y]
            /\ e \in Range(links') =>
                 edges'[e].path =
                   [cmd |-> "MLLL",
                    pts |-> <<start.x, start.y, edges'[e].bend.x, start.y,
                              edges'[e].bend.x, end.y, end.x, end.y>>]
    ]_vars

\* B was just moved to (300,200), after the bend of the orthogonal link from
\* A's port to B's port was dragged from its midpoint to (180,90)
C30_Witness ==
  /\ lastCall = Call("setPosition", 2)
  /\ shapes[2].x = 300 /\ shapes[2].y = 200
  /\ links = <<1>>
  /\ edges[1].type = "orthogonal"
  /\ edges[1].target = PortRef(2, 1)
  /\ edges[1].bend = [set |-> TRUE, x |-> 180, y |-> 90]
  /\ edges[1].path.pts = <<100, 50, 180, 50, 180, 250, 300, 250>>

\* the shape h overlaps another node of the map, edge-to-edge contact apart
Collides(h) ==
  \E other \in MapValues(nodes) \ {h} : BoxesOverlap(shapes[h], shapes[other])

\* C31: a move of a drag puts the node where the pointer takes it, and a
\* setPosition or setSize call where and as the caller says, also onto
\* another node; the end of a drag emits one dragend, leaves the node where
\* it was dropped when its box overlaps no other node's box (boxes that only
\* touch do not overlap), and runs setPosition at most once otherwise.
C31_CollisionAtDragEndOnly ==
  [][
      /\ \A pt \in DropPoints :
           (PointerMove(pt) /\ Len(win) = 1 /\ win[1].kind = "drag") =>
             /\ shapes'[2].x = win[1].from.x + (pt.x - win[1].at.x)
             /\ shapes'[2].y = win[1].from.y + (pt.y - win[1].at.y)
             /\ Count(events', "move") = 1
      /\ \A pos \in DropPositions :
           SetPosition(2, pos) =>
             /\ shapes'[2].x = pos.x /\ shapes'[2].y = pos.y
             /\ Count(events', "move") = 1
      /\ \A size \in DropSizes :
           SetSize(2, size) =>
             /\ shapes'[2].width = size.w /\ shapes'[2].height = size.h
             /\ shapes'[2].x = shapes[2].x /\ shapes'[2].y = shapes[2].y
             /\ Count(events', "move") = 0
      /\ \A end \in ReleasePoints :
           (PointerUp(end) /\ Len(win) = 1 /\ win[1].kind = "drag") =>
             /\ Count(events', "dragend") = 1
             /\ Count(events', "move") <= 1
             /\ ~Collides(2) => (shapes' = shapes /\ Count(events', "move") = 0)
    ]_vars

\* a drag of A has just ended with A at (200,0), edge to edge with B at
\* (300,0): A stays there and no setPosition ran
C31_Witness ==
  /\ lastCall.op = "pointerup"
  /\ shapes[2].x = 200 /\ shapes[2].y = 0 /\ shapes[2].width = 100
  /\ shapes[1].x = 300 /\ shapes[1].y = 0
  /\ Count(events, "dragend") = 1
  /\ Count(events, "move") = 0

\* the id of the node an endpoint is on, null for a free point
NodeIdOf(ep) == IF ep.kind = "port" THEN shapes[ep.node].id ELSE NoId

\* C32: exportJSON() returns one entry for each node of the node map, in
\* order, with the node's id, x, y, width, height, label and the id, side and
\* offset of its ports, and one entry for each link of the link set, in
\* order, with the ids of the nodes its endpoints are on, null for a free
\* point; node map, link set, selection, history stacks, shapes, edges and
\* store are as before and no signal is emitted.
C32_ExportSnapshot ==
  [][ExportJSON =>
       LET data == lastCall'.arg IN
       /\ Len(data.nodes) = Len(nodes)
       /\ \A i \in 1..Len(nodes) :
            LET sh == shapes[nodes[i].h] IN
            /\ data.nodes[i].id = nodes[i].id /\ data.nodes[i].id = sh.id
            /\ data.nodes[i].x = sh.x /\ data.nodes[i].y = sh.y
            /\ data.nodes[i].width = sh.width /\ data.nodes[i].height = sh.height
            /\ data.nodes[i].label = sh.labelText
            /\ Len(data.nodes[i].ports) = Len(sh.ports)
            /\ \A p \in 1..Len(sh.ports) :
                 data.nodes[i].ports[p] =
                   [id |-> sh.ports[p].id, side |-> sh.ports[p].side,
                    offset |-> sh.ports[p].offset]
       /\ Len(data.links) = Len(links)
       /\ \A i \in 1..Len(links) :
            data.links[i] = [source |-> NodeIdOf(edges[links[i]].source),
                             target |-> NodeIdOf(edges[links[i]].target)]
       /\ UNCHANGED <<shapes, edges, nodes, links, lmEdges, undoStack, redoStack,
                      selectedNodes, selectedLinks, selected, store>>
       /\ events' = <<>>
    ]_vars

\* exportJSON() has just returned two nodes, B at (110,0), and two links, one
\* from A to B and one from a node to the free point, A being selected
C32_Witness ==
  /\ lastCall.op = "exportJSON"
  /\ Len(lastCall.arg.nodes) = 2
  /\ lastCall.arg.nodes[2].x = 110
  /\ Len(lastCall.arg.links) = 2
  /\ \E i \in 1..2 : lastCall.arg.links[i] = [source |-> shapes[1].id, target |-> shapes[2].id]
  /\ \E i \in 1..2 : lastCall.arg.links[i].target = NoId
  /\ selectedNodes = <<1>>
  /\ undoStack # <<>>

\* C33: every selected node is a node of the node map and every selected
\* link is a link of the link set.
C33_SelectionNeverDangles ==
  /\ \A h \in Range(selectedNodes) : \E i \in 1..Len(nodes) : nodes[i].h = h
  /\ \A e \in Range(selectedLinks) : e \in Range(links)

\* the elements of the sequence q are pairwise different
NoRepeats(q) == \A i, j \in 1..Len(q) : q[i] = q[j] => i = j

\* C34: after every completed editor operation the edge list of the link
\* manager and the link set of the editor hold the same edges, each once.
C34_LinkBookkeeping ==
  /\ Range(lmEdges) = Range(links)
  /\ NoRepeats(lmEdges)
  /\ NoRepeats(links)

\* a reconnect drag has just been released on a port, after an undo that
\* removed one of two links
C34_Witness ==
  /\ lastCall.op = "pointerup"
  /\ Len(events) = 1 /\ events[1].type = "link:reconnect"
  /\ Len(edges) = 2 /\ Len(links) = 1 /\ Len(lmEdges) = 1
  /\ redoStack # <<>>

\* C35: after every completed call the state of the store holds the nodes of
\* the node map, in the order of the map, and the links of the link set, in
\* the order of the set, and nothing else.
C35_StoreAgreement ==
  /\ Len(store.nodes) = Len(nodes)
  /\ \A i \in 1..Len(nodes) : store.nodes[i] = nodes[i].h
  /\ Len(store.links) = Len(links)
  /\ \A i \in 1..Len(links) : store.links[i] = links[i]

\* load has just made two nodes and a link that the store holds; a link has
\* been made after that and removed by undo, a node removed by removeNode
C35_Witness ==
  /\ lastCall.op = "removeNode"
  /\ Len(nodes) = 1 /\ store.nodes = <<nodes[1].h>>
  /\ Len(edges) = 2 /\ redoStack # <<>>
  /\ Count(events, "node:remove") = 1

\* C36: when the reconnect drag of a tracked link, the only gesture in
\* flight, is released within reach of a port of a node other than the
\* link's source node, the link's target becomes such a port and one
\* link:reconnect change is emitted; when no such port is in reach the link
\* is as before and nothing is emitted.  In both cases the link's source,
\* type and bend, the other links, the link set, the link manager's list,
\* the node map and both history stacks are as before.
C36_ReconnectFrame ==
  [][\A end \in ReleasePoints :
       (/\ Len(win) = 1 /\ win[1].kind = "reconnect"
        /\ win[1].edge \in Range(links)
        /\ lastCall'.op = "pointerup"
        /\ PointerUp(end)) =>
         LET e == win[1].edge
             ex == IF edges[e].source.kind = "port" THEN edges[e].source.node ELSE 0
             Q == Qualifying(end, ex)
         IN /\ IF Q = {}
               THEN edges' = edges /\ events' = <<>>
               ELSE /\ \E q \in Q : edges'[e].target = PortRef(nodes[q[1]].h, q[2])
                    /\ Len(events') = 1
                    /\ events'[1].name = "diagram:changed"
                    /\ events'[1].type = "link:reconnect"
                    /\ events'[1].subject = e
            /\ edges'[e].source = edges[e].source
            /\ edges'[e].type = edges[e].type
            /\ edges'[e].bend = edges[e].bend
            /\ edges'[e].id = edges[e].id
            /\ \A o \in (1..Len(edges)) \ {e} :
                 /\ edges'[o].source = edges[o].source
                 /\ edges'[o].target = edges[o].target
            /\ UNCHANGED <<links, lmEdges, nodes, shapes, undoStack, redoStack>>
    ]_vars

\* the reconnect drag of the link from A to the free point has just been
\* released on B's port: the link goes from A to B, and the history is as the
\* undo before the drag left it
C36_Witness ==
  /\ lastCall.op = "pointerup"
  /\ Len(events) = 1 /\ events[1].type = "link:reconnect"
  /\ events[1].subject \in Range(links)
  /\ edges[events[1].subject].source = PortRef(1, 1)
  /\ edges[events[1].subject].target = PortRef(2, 1)
  /\ Len(links) = 2
  /\ \A e \in Range(links) : edges[e].target = PortRef(2, 1)

\* the slide at activeIndex is not hidden and every other slide is hidden
ActiveAloneShown ==
  \A i \in 1..Len(slides) :
    slideEls[slides[i].el].hidden <=> (i - 1 # pmStore.activeIndex)

\* C37: after removeSlide(i) on a presentation that still has slides, and
\* with no transition timer pending, the slide at activeIndex is not hidden
\* and every other slide is hidden.
C37_RemoveSlideDisplay ==
  (pmCall.op = "removeSlide" /\ slides # <<>> /\ timers = <<>>) => ActiveAloneShown

\* C38: whenever no transition timer is pending, whatever goTo, next and prev
\* calls and timer callbacks came before, the active slide is not hidden and
\* every other slide is hidden.
C38_TimersSettle ==
  (timers = <<>> /\ slides # <<>>) => ActiveAloneShown

\* store.getState().activeIndex and the number of slides
ActiveIndex == pmStore.activeIndex
SlideCount == Len(slides)
\* the call moved nothing: activeIndex as before, no slide:change emitted
StaysPut ==
  /\ pmStore'.activeIndex = pmStore.activeIndex
  /\ \A i \in 1..Len(pmEvents') : pmEvents'[i].name # "slide:change"

\* C39: after any sequence of addSlide, removeSlide, goTo, next and prev,
\* 0 <= activeIndex <= max(0, slideCount - 1); and goTo with an index outside
\* [0, slideCount - 1], next() on the last slide and prev() on the first slide
\* leave activeIndex as it was and emit no slide:change.
C39_IndexBounds ==
  [][/\ pmStore'.activeIndex >= 0
     /\ pmStore'.activeIndex <= Max(0, Len(slides') - 1)
     /\ \A index \in SlideIndices :
          (GoTo(index) /\ (index < 0 \/ index > SlideCount - 1)) => StaysPut
     /\ (NextSlide /\ ActiveIndex >= SlideCount - 1) => StaysPut
     /\ (PrevSlide /\ ActiveIndex = 0) => StaysPut
    ]_vars

\* next() has just been called on the last of two slides: activeIndex is
\* still 1 and nothing was emitted
C39_Witness ==
  /\ pmCall = Call("next", 0)
  /\ pmEvents = <<>>
  /\ SlideCount = 2 /\ ActiveIndex = 1

====
